---- MODULE Spec2Model ----
(***************************************************************************)
(* Model of the PV / PVC binding controller sketched in                    *)
(* src/unnamed/part_001 (SyncPVC, syncPV, initController and helpers).     *)
(*                                                                         *)
(* The object store holds PersistentVolumes (pv) and PersistentVolumeClaims*)
(* (pvc).  A reconciliation pass runs on a worker: it takes a snapshot of  *)
(* its object, reads the peer object, edits local copies and commits them  *)
(* one store call at a time.  Every store call is one step of the model, so*)
(* passes of different workers interleave at every commit boundary, and    *)
(* every commit may fail.                                                  *)
(***************************************************************************)
EXTENDS Naturals, FiniteSets, Sequences, TLC

\* ------------------------------------------------------------------ bounds
\* Number of objects (PVs and PVCs) ever created.
MaxCreates == 3

\* ------------------------------------------------------------- vocabulary
PVs == {"v1", "v2"}
PVCs == {"c1", "c2"}
Workers == {"w1", "w2"}
NULL == "nil"

Pending == "Pending"
Available == "Available"
Bound == "Bound"
Released == "Released"
Lost == "Lost"
Failed == "Failed"

Policies == {"Retain", "Delete", "Recycle"}

VARIABLES
    pv,        \* store: PV name -> PV object (or the absent object)
    pvc,       \* store: PVC name -> PVC object; a deleted PVC keeps its last
               \* state with exists = FALSE (the payload of its DELETE event)
    proc,      \* worker -> state of the pass it is running
    running,   \* work registry: the jobs in flight, one per key
    resync     \* the periodic full resync: round, the objects it has yet to
               \* hand to their reconcilers in this round (todo), and the
               \* store as it was at the end of every round so far (snaps)

vars == <<pv, pvc, proc, running, resync>>

\* ------------------------------------------------------------ the objects
\* The UID of an object is its name with the number of objects created under
\* that name so far (uid); uid = 0 before the first.  A claim pointer is the
\* name cp with the number cpuid of the UID, 0 when the pointer has no UID:
\* every assignment to ClaimPtr.UID in the sources follows or leaves a
\* ClaimPtr that names the PVC whose UID is assigned.
NoPV == [exists |-> FALSE, uid |-> 0, cp |-> NULL, cpuid |-> 0,
         phase |-> Pending, bbc |-> FALSE, policy |-> "Retain",
         placeholder |-> FALSE]

NoPVC == [exists |-> FALSE, uid |-> 0, vp |-> NULL, phase |-> Pending,
          wab |-> FALSE, bbc |-> FALSE, class |-> FALSE]

\* pvc.UID and pv.Spec.ClaimPtr.UID (NoUID: the pointer carries none).
NoUID == <<NULL, 0>>
UID(name, o) == <<name, o.uid>>
ClaimPtrUID(o) == IF o.cpuid = 0 THEN NoUID ELSE <<o.cp, o.cpuid>>

\* A deleted PV: nothing is left of it but the count behind its UID.
Gone(o) == [NoPV EXCEPT !.uid = o.uid]

\* A worker.  fn: the function it runs; br: the branch of that function the
\* pass took; at: the store call it is about to make ("read", "pv", "pvs",
\* "pvc", "pvcs", "del"), "dispatch" (the work registry) or "done".
\* lpvc, lpv: the object the pass was handed, kept until the pass has read its
\* peer and chosen its branch.  From then on a local copy is the stored
\* object plus the edits of the branch, or it is stale and its commit fails;
\* so the worker keeps the edits' inputs, not the copy: c, v (the objects it
\* holds), cuid (pvc.UID), vp (pvc.Spec.VolumePtr), vuid and pol (the UID and
\* reclaim policy of the PV), and pvcStale, pvStale (the stored object
\* changed under the copy: the next commit of it meets Conflict or NotFound).
\* del: the pass handles a PVC DELETE event; ok: no store write of the pass
\* has failed.
IdleProc == [fn |-> "idle", br |-> "idle", at |-> "idle", c |-> NULL,
             v |-> NULL, lpvc |-> NoPVC, lpv |-> NoPV, cuid |-> 0,
             vp |-> NULL, vuid |-> 0, pol |-> "Retain", pvcStale |-> FALSE,
             pvStale |-> FALSE, del |-> FALSE, ok |-> TRUE]

\* hasAnnotation(obj, ann) for the three annotations, which are the boolean
\* fields wab (annWasEverBound), bbc (annBoundByController) and class
\* (annClass); setAnnotation sets the field.
hasAnnotation(o, ann) ==
    CASE ann = "annWasEverBound" -> o.wab
      [] ann = "annBoundByController" -> o.bbc
      [] ann = "annClass" -> o.class

\* isPlaceholderPV: the provisioning-required annotation is present with a
\* value other than provisioning-completed.
isPlaceholderPV(o) == o.placeholder

\* ---------------------------------------------------------------- store
\* The object store is not part of the sources: its calls (GetPV, GetPVC,
\* CommitPV, CommitPVStatus, CommitPVC, CommitPVCStatus, DeletePV) are modelled
\* as per-object optimistic writes.  A write of a copy whose stored object
\* changed since the copy was taken fails; any write may also fail for no
\* reason the controller can see.

\* Workers other than w that hold a copy of PV v see it go stale.
StalePV(P, v, w) ==
    [q \in Workers |->
        IF q # w /\ P[q].v = v THEN [P[q] EXCEPT !.pvStale = TRUE] ELSE P[q]]

\* Workers other than w that hold a copy of PVC c see it go stale.
StalePVC(P, c, w) ==
    [q \in Workers |->
        IF q # w /\ P[q].c = c THEN [P[q] EXCEPT !.pvcStale = TRUE] ELSE P[q]]

\* ----------------------------------------------------------- environment
RECURSIVE Count(_, _)
Count(f, S) ==
    IF S = {} THEN 0
    ELSE LET x == CHOOSE y \in S : TRUE IN f[x].uid + Count(f, S \ {x})

\* The number of objects created so far.
Created == Count(pv, PVs) + Count(pvc, PVCs)

\* Objects are created and deleted by their owners, never by the reconcilers.
\* A new PVC is Pending, carries no controller annotation, and may name the PV
\* it wants (pre-bind from the claim side) and a storage class.
CreatePVC(c, want, cls) ==
    /\ ~pvc[c].exists
    /\ Created < MaxCreates
    /\ pvc' = [pvc EXCEPT ![c] = [exists |-> TRUE, uid |-> pvc[c].uid + 1,
                                  vp |-> want, phase |-> Pending,
                                  wab |-> FALSE, bbc |-> FALSE,
                                  class |-> cls]]
    /\ proc' = StalePVC(proc, c, NULL)
    /\ UNCHANGED <<pv, running>>

\* A deleted PVC leaves its last state behind as the DELETE event's payload.
DeletePVC(c) ==
    /\ pvc[c].exists
    /\ pvc' = [pvc EXCEPT ![c].exists = FALSE]
    /\ proc' = StalePVC(proc, c, NULL)
    /\ UNCHANGED <<pv, running>>

\* A new PV has no phase yet (Pending), and may be reserved for a PVC
\* (pre-bind from the volume side): by name, a claim pointer without UID, or
\* for the PVC that has the name now (withUID), "created with this ptr".
CreatePV(v, reserve, withUID, pol, ph) ==
    /\ ~pv[v].exists
    /\ Created < MaxCreates
    /\ pv' = [pv EXCEPT ![v] = [exists |-> TRUE, uid |-> pv[v].uid + 1,
                                cp |-> reserve,
                                cpuid |-> IF withUID /\ reserve # NULL
                                          THEN pvc[reserve].uid ELSE 0,
                                phase |-> Pending, bbc |-> FALSE,
                                policy |-> pol, placeholder |-> ph]]
    /\ proc' = StalePV(proc, v, NULL)
    /\ UNCHANGED <<pvc, running>>

DeletePVObject(v) ==
    /\ pv[v].exists
    /\ pv' = [pv EXCEPT ![v] = Gone(pv[v])]
    /\ proc' = StalePV(proc, v, NULL)
    /\ UNCHANGED <<pvc, running>>

\* ------------------------------------------------------------- the matcher
\* The matcher forgets the PVs that are pre-bound to the PVC.
FindAcceptablePVUnclaimedOnly(c, lc) ==
    {v \in PVs : pv[v].exists /\ ~isPlaceholderPV(pv[v]) /\ pv[v].cp = NULL}

\* FindAcceptablePV: a PV pre-bound to the PVC has top priority; placeholder
\* PVs are ignored; otherwise the smallest matching volume.  Sizes and the
\* matching predicate are not modelled: any unclaimed PV may be the smallest
\* match.  The result is the set of PVs the function may return, empty when
\* it returns nil.
PreBoundTo(c, lc) ==
    {v \in PVs : /\ pv[v].exists
                 /\ ~isPlaceholderPV(pv[v])
                 /\ pv[v].cp = c
                 /\ pv[v].cpuid \in {0, lc.uid}}

Unclaimed ==
    {v \in PVs : pv[v].exists /\ ~isPlaceholderPV(pv[v]) /\ pv[v].cp = NULL}

FindAcceptablePV(c, lc) ==
    IF PreBoundTo(c, lc) # {} THEN PreBoundTo(c, lc) ELSE Unclaimed

\* GetPV(pvc.Spec.VolumePtr): the set holding the PV, empty when absent.
GetPV(name) == {v \in PVs : v = name /\ pv[v].exists}

\* GetPVC(pv.Spec.ClaimPtr): the PVC is fetched by name; syncPV takes one
\* whose UID differs from the pointer's for nil (deleted and re-created).
GetPVC(o) ==
    {c \in PVCs : /\ c = o.cp
                  /\ pvc[c].exists
                  /\ UID(c, pvc[c]) = ClaimPtrUID(o)}

\* ---------------------------------------------------------------- SyncPVC
\* A pass starts from the PVC the event or the resync hands it.  The payload
\* of a DELETE event is the last state of the deleted PVC.
StartSyncPVC(w, c) ==
    /\ proc[w].at = "idle"
    /\ pvc[c].uid # 0
    /\ proc' = [proc EXCEPT ![w] =
            [IdleProc EXCEPT !.fn = "SyncPVC", !.at = "read", !.c = c,
                             !.lpvc = pvc[c], !.cuid = pvc[c].uid,
                             !.vp = pvc[c].vp, !.del = ~pvc[c].exists,
                             !.pvcStale = ~pvc[c].exists]]
    /\ UNCHANGED <<pv, pvc, running>>

\* The branch of SyncPVC taken for the local PVC lc (named c) when the matcher
\* or GetPV returned the PV o named v (v = NULL for nil).
\*   N, Nc  no PV found (Nc: a storage class is requested)
\*   A, Ap  PV found by the matcher (A: unclaimed, Ap: it has a claim pointer)
\*   W      wanted PV does not exist
\*   B      wanted PV is not claimed     C  wanted PV is claimed by this PVC
\*   X      wanted PV is claimed by someone else
\*   D1     bound before, pointer nil    D2 bound to a non-existing volume
\*   E      volume has come unbound      G  volume has a different claimant
\*   Fvc, Fv, Fc, F0  all is well; the phase of the PV (v) and of the PVC (c)
\*          is written where it is not Bound
\* lines 36-171: the PVC has not completed binding.
SyncPVCNew(lc, c, v, o) ==
    IF lc.vp = NULL
    THEN IF v = NULL
         THEN IF hasAnnotation(lc, "annClass") THEN "Nc" ELSE "N"
         ELSE IF o.cp = NULL THEN "A" ELSE "Ap"
    ELSE IF v = NULL THEN "W"
         ELSE IF o.cp = NULL THEN "B"
         ELSE IF o.cp = c THEN "C"
         ELSE "X"

\* A PVC that was bound before takes any claim pointer for its own.
SyncPVCWasBoundAnyClaimant(lc, c, v, o) ==
    IF lc.vp = NULL THEN "D1"
    ELSE IF v = NULL THEN "D2"
    ELSE IF o.cp = NULL THEN "E"
    ELSE IF o.phase # Bound
         THEN IF lc.phase # Bound THEN "Fvc" ELSE "Fv"
         ELSE IF lc.phase # Bound THEN "Fc" ELSE "F0"

\* lines 172-237: the PVC has previously been bound.
SyncPVCWasBound(lc, c, v, o) ==
    IF lc.vp = NULL THEN "D1"
    ELSE IF v = NULL THEN "D2"
    ELSE IF o.cp = NULL THEN "E"
    ELSE IF ClaimPtrUID(o) = UID(c, lc)
         THEN IF o.phase # Bound
              THEN IF lc.phase # Bound THEN "Fvc" ELSE "Fv"
              ELSE IF lc.phase # Bound THEN "Fc" ELSE "F0"
    ELSE "G"

SyncPVCBranch(lc, c, v, o) ==
    IF ~hasAnnotation(lc, "annWasEverBound")
    THEN SyncPVCNew(lc, c, v, o)
    ELSE SyncPVCWasBound(lc, c, v, o)

\* All is well, and the phase of the PVC is committed all the same.
SyncPVCFirstAlwaysCommits(br) ==
    CASE br \in {"A", "Ap", "B", "C", "E"} -> "pv"
      [] br \in {"Fvc", "Fv"} -> "pvs"
      [] br \in {"D1", "D2", "G", "Fc", "F0"} -> "pvcs"
      [] br = "Nc" -> "dispatch"
      [] OTHER -> "done"

\* A PVC that has to wait has its phase committed all the same.
SyncPVCFirstWaitingCommits(br) ==
    CASE br \in {"A", "Ap", "B", "C", "E"} -> "pv"
      [] br \in {"Fvc", "Fv"} -> "pvs"
      [] br \in {"D1", "D2", "G", "Fc", "N", "W", "X"} -> "pvcs"
      [] br = "Nc" -> "dispatch"
      [] OTHER -> "done"

\* The first call a branch of SyncPVC makes ("done": it returns at once).
SyncPVCFirst(br) ==
    CASE br \in {"A", "Ap", "B", "C", "E"} -> "pv"
      [] br \in {"Fvc", "Fv"} -> "pvs"
      [] br \in {"D1", "D2", "G", "Fc"} -> "pvcs"
      [] br = "Nc" -> "dispatch"
      [] OTHER -> "done"

SyncPVCRead(w) ==
    /\ proc[w].fn = "SyncPVC"
    /\ proc[w].at = "read"
    /\ LET me == proc[w]
           found == IF ~hasAnnotation(me.lpvc, "annWasEverBound")
                       /\ me.lpvc.vp = NULL
                    THEN FindAcceptablePV(me.c, me.lpvc)
                    ELSE GetPV(me.lpvc.vp)
       IN \E v \in (IF found = {} THEN {NULL} ELSE found) :
            LET o == IF v = NULL THEN NoPV ELSE pv[v]
                br == SyncPVCBranch(me.lpvc, me.c, v, o)
            IN proc' = [proc EXCEPT ![w] =
                 [me EXCEPT !.br = br, !.at = SyncPVCFirst(br), !.v = v,
                            !.lpvc = NoPVC, !.pvStale = FALSE]]
    /\ UNCHANGED <<pv, pvc, running>>

\* ------------------------------------------------------------------ syncPV
\* The branch of syncPV for the local PV o (named v) when GetPVC returned the
\* PVC named c (NULL for nil).
\*   H  volume is unused          K  reserved for a PVC (pointer without UID)
\*   R  the claim was deleted     Y  claim's pointer is nil (NOP)
\*   P, P0  bound properly (P0: the phase is Bound already)
\*   U  claim bound elsewhere, we did this
\*   Z  claim bound elsewhere, the PV was created with this pointer
\* syncPV takes a PVC whose volume pointer is nil for one bound elsewhere.
SyncPVBranchNoDefer(o, v, c) ==
    IF o.cp = NULL THEN "H"
    ELSE IF o.cpuid = 0 THEN "K"
    ELSE IF c = NULL THEN "R"
    ELSE IF pvc[c].vp = v THEN IF o.phase # Bound THEN "P" ELSE "P0"
    ELSE IF hasAnnotation(o, "annBoundByController") THEN "U"
    ELSE "Z"

SyncPVBranch(o, v, c) ==
    IF o.cp = NULL THEN "H"
    ELSE IF o.cpuid = 0 THEN "K"
    ELSE IF c = NULL THEN "R"
    ELSE IF pvc[c].vp = NULL THEN "Y"
    ELSE IF pvc[c].vp = v THEN IF o.phase # Bound THEN "P" ELSE "P0"
    ELSE IF hasAnnotation(o, "annBoundByController") THEN "U"
    ELSE "Z"

\* syncPV dispatches on the reclaim policy before it has committed Released.
SyncPVFirstDispatches(br) ==
    CASE br \in {"H", "Z", "P"} -> "pvs"
      [] br = "R" -> "dispatch"
      [] br = "U" -> "pv"
      [] OTHER -> "done"

\* The first call a branch of syncPV makes ("done": it returns at once).
SyncPVFirst(br) ==
    CASE br \in {"H", "R", "Z", "P"} -> "pvs"
      [] br = "U" -> "pv"
      [] OTHER -> "done"

\* syncPV starts with upgradePVFrom12: a placeholder PV is deleted ("del"),
\* any other PV goes on to the claim pointer checks.
upgradePVFrom12(o) == IF isPlaceholderPV(o) THEN "del" ELSE "read"

StartSyncPV(w, v) ==
    /\ proc[w].at = "idle"
    /\ pv[v].exists
    /\ proc' = [proc EXCEPT ![w] =
            [IdleProc EXCEPT !.fn = "syncPV", !.v = v, !.lpv = pv[v],
                             !.vuid = pv[v].uid, !.pol = pv[v].policy,
                             !.at = upgradePVFrom12(pv[v])]]
    /\ UNCHANGED <<pv, pvc, running>>

SyncPVRead(w) ==
    /\ proc[w].fn = "syncPV"
    /\ proc[w].at = "read"
    /\ LET me == proc[w]
           got == GetPVC(me.lpv)
           c == IF got = {} THEN NULL ELSE CHOOSE x \in got : TRUE
           br == SyncPVBranch(me.lpv, me.v, c)
       IN proc' = [proc EXCEPT ![w] =
            [me EXCEPT !.br = br, !.at = SyncPVFirst(br), !.c = c,
                       !.lpv = NoPV, !.pvcStale = FALSE]]
    /\ UNCHANGED <<pv, pvc, running>>

\* ---------------------------------------------------------------- commits
\* The PV a user asked for is claimed without annBoundByController.
PVSpecEditRequestedUnmarked(me, o) ==
    CASE me.br = "A" ->
             [o EXCEPT !.cp = me.c, !.cpuid = me.cuid, !.bbc = TRUE]
      [] me.br = "B" -> [o EXCEPT !.cp = me.c, !.cpuid = me.cuid]
      [] me.br = "C" -> [o EXCEPT !.cpuid = me.cuid]
      [] me.br = "E" -> [o EXCEPT !.cp = me.c, !.cpuid = me.cuid]
      [] me.br = "U" -> [o EXCEPT !.cp = NULL, !.cpuid = 0]
      [] OTHER -> o

\* The repair of a broken link sets the claim pointer and leaves out its UID.
PVSpecEditRepairWithoutUID(me, o) ==
    CASE me.br \in {"A", "B"} ->
             [o EXCEPT !.cp = me.c, !.cpuid = me.cuid, !.bbc = TRUE]
      [] me.br = "C" -> [o EXCEPT !.cpuid = me.cuid]
      [] me.br = "E" -> [o EXCEPT !.cp = me.c]
      [] me.br = "U" -> [o EXCEPT !.cp = NULL, !.cpuid = 0]
      [] OTHER -> o

\* The undo of syncPV commits the claim pointer as it found it.
PVSpecEditUndoKeepsPtr(me, o) ==
    CASE me.br \in {"A", "B"} ->
             [o EXCEPT !.cp = me.c, !.cpuid = me.cuid, !.bbc = TRUE]
      [] me.br = "C" -> [o EXCEPT !.cpuid = me.cuid]
      [] me.br = "E" -> [o EXCEPT !.cp = me.c, !.cpuid = me.cuid]
      [] OTHER -> o

\* The edits a pass made to the spec and annotations of its local PV o.
PVSpecEdit(me, o) ==
    CASE me.br \in {"A", "B"} ->
             [o EXCEPT !.cp = me.c, !.cpuid = me.cuid, !.bbc = TRUE]
      [] me.br = "C" -> [o EXCEPT !.cpuid = me.cuid]
      [] me.br = "E" -> [o EXCEPT !.cp = me.c, !.cpuid = me.cuid]
      [] me.br = "U" -> [o EXCEPT !.cp = NULL, !.cpuid = 0]
      [] OTHER -> o

\* The undo of syncPV forgets the phase: the PV stays Bound.
PVPhaseUndoKeepsBound(me) ==
    IF me.fn = "SyncPVC" THEN Bound
    ELSE CASE me.br \in {"H", "Z"} -> Available
           [] me.br = "R" -> Released
           [] me.br = "M" -> Failed
           [] OTHER -> Bound

\* The release of syncPV puts the PV straight back into the pool.
PVPhaseReleaseAvailable(me) ==
    IF me.fn = "SyncPVC" THEN Bound
    ELSE CASE me.br \in {"H", "Z", "U", "R"} -> Available
           [] me.br = "M" -> Failed
           [] OTHER -> Bound

\* pv.Status.Phase as the pass set it before CommitPVStatus.
PVPhase(me) ==
    IF me.fn = "SyncPVC" THEN Bound
    ELSE CASE me.br \in {"H", "Z", "U"} -> Available
           [] me.br = "R" -> Released
           [] me.br = "M" -> Failed
           [] OTHER -> Bound

\* SyncPVC binds a PVC without marking it as bound by the controller.
PVCSpecEditUnmarked(me, o) ==
    IF me.br \in {"A", "Ap"}
    THEN [o EXCEPT !.vp = me.v, !.wab = TRUE]
    ELSE [o EXCEPT !.wab = TRUE]

\* The edits SyncPVC made to the spec and annotations of its local PVC o.
PVCSpecEdit(me, o) ==
    IF me.br \in {"A", "Ap"}
    THEN [o EXCEPT !.vp = me.v, !.wab = TRUE, !.bbc = TRUE]
    ELSE [o EXCEPT !.wab = TRUE]

\* A PVC whose PV does not exist goes back to Pending.
PVCPhaseMissingVolumePends(me) ==
    IF me.br \in {"D1", "G"} THEN Lost
    ELSE IF me.br = "D2" THEN Pending ELSE Bound

\* pvc.Status.Phase as the pass set it before CommitPVCStatus.
PVCPhase(me) == IF me.br \in {"D1", "D2", "G"} THEN Lost ELSE Bound

\* A PVC that is marked Lost is made new again.
PVCStatusEditLostUnbinds(me, o) ==
    IF PVCPhase(me) = Lost
    THEN [o EXCEPT !.phase = Lost, !.wab = FALSE]
    ELSE [o EXCEPT !.phase = PVCPhase(me)]

\* What CommitPVCStatus(pvc.Status) writes: the phase, nothing else.
PVCStatusEdit(me, o) == [o EXCEPT !.phase = PVCPhase(me)]

\* syncPV dispatches on the reclaim policy whatever it is: Retain as well.
AfterPVStatusRetainDispatches(me) ==
    IF me.fn = "SyncPVC"
    THEN CASE me.br \in {"A", "Ap", "B", "C"} -> "pvc"
           [] me.br = "Fvc" -> "pvcs"
           [] OTHER -> "done"
    ELSE IF me.br = "R" THEN "dispatch" ELSE "done"

\* Where a pass goes after a store write that succeeded.
AfterPVStatus(me) ==
    IF me.fn = "SyncPVC"
    THEN CASE me.br \in {"A", "Ap", "B", "C"} -> "pvc"
           [] me.br = "Fvc" -> "pvcs"
           [] OTHER -> "done"
    ELSE IF me.br = "R" /\ me.pol # "Retain" THEN "dispatch" ELSE "done"

AfterPVCStatus(me) == IF me.br = "D1" THEN "pvcs" ELSE "done"

\* A store write that failed is ignored: the pass goes on to its next call.
FailureIgnored(me) ==
    [me EXCEPT !.at = CASE me.at = "pv" -> "pvs"
                        [] me.at = "pvs" -> AfterPVStatus(me)
                        [] me.at = "pvc" -> "pvcs"
                        [] OTHER -> "done",
               !.ok = FALSE]

Failure(me) == [me EXCEPT !.at = "done", !.ok = FALSE]

\* CommitPV(pv) on a store where the last writer wins: a stale copy is written
\* too.
CommitPVLastWriterWins(w, ok) ==
    /\ proc[w].at = "pv"
    /\ LET me == proc[w]
           new == PVSpecEdit(me, pv[me.v])
       IN IF ok
          THEN /\ pv[me.v].exists
               /\ pv' = [pv EXCEPT ![me.v] = new]
               /\ proc' = [(IF new # pv[me.v] THEN StalePV(proc, me.v, w)
                            ELSE proc) EXCEPT ![w].at = "pvs"]
          ELSE /\ pv' = pv
               /\ proc' = [proc EXCEPT ![w] = Failure(me)]
    /\ UNCHANGED <<pvc, running>>

\* CommitPV(pv): the spec and the annotations of the local PV are written.
CommitPV(w, ok) ==
    /\ proc[w].at = "pv"
    /\ LET me == proc[w]
           new == PVSpecEdit(me, pv[me.v])
       IN IF ok
          THEN /\ ~me.pvStale
               /\ pv[me.v].exists
               /\ pv' = [pv EXCEPT ![me.v] = new]
               /\ proc' = [(IF new # pv[me.v] THEN StalePV(proc, me.v, w)
                            ELSE proc) EXCEPT ![w].at = "pvs"]
          ELSE /\ pv' = pv
               /\ proc' = [proc EXCEPT ![w] = Failure(me)]
    /\ UNCHANGED <<pvc, running>>

\* CommitPVStatus(pv.Status): the phase of the local PV is written.  SyncPVC
\* sets pvc.Spec.VolumePtr in its local PVC once the PV it found is Bound.
CommitPVStatus(w, ok) ==
    /\ proc[w].at = "pvs"
    /\ LET me == proc[w]
           new == [pv[me.v] EXCEPT !.phase = PVPhase(me)]
       IN IF ok
          THEN /\ ~me.pvStale
               /\ pv[me.v].exists
               /\ pv' = [pv EXCEPT ![me.v] = new]
               /\ proc' = [(IF new # pv[me.v] THEN StalePV(proc, me.v, w)
                            ELSE proc) EXCEPT ![w] =
                      [me EXCEPT !.at = AfterPVStatus(me),
                                 !.vp = IF me.fn = "SyncPVC"
                                           /\ me.br \in {"A", "Ap"}
                                        THEN me.v ELSE me.vp]]
          ELSE /\ pv' = pv
               /\ proc' = [proc EXCEPT ![w] = Failure(me)]
    /\ UNCHANGED <<pvc, running>>

\* CommitPVC(pvc): the spec and the annotations of the local PVC are written.
CommitPVC(w, ok) ==
    /\ proc[w].at = "pvc"
    /\ LET me == proc[w]
           new == PVCSpecEdit(me, pvc[me.c])
       IN IF ok
          THEN /\ ~me.pvcStale
               /\ pvc[me.c].exists
               /\ pvc' = [pvc EXCEPT ![me.c] = new]
               /\ proc' = [(IF new # pvc[me.c] THEN StalePVC(proc, me.c, w)
                            ELSE proc) EXCEPT ![w].at = "pvcs"]
          ELSE /\ pvc' = pvc
               /\ proc' = [proc EXCEPT ![w] = Failure(me)]
    /\ UNCHANGED <<pv, running>>

\* CommitPVCStatus(pvc.Status): the phase of the local PVC is written.
CommitPVCStatus(w, ok) ==
    /\ proc[w].at = "pvcs"
    /\ LET me == proc[w]
           new == PVCStatusEdit(me, pvc[me.c])
       IN IF ok
          THEN /\ ~me.pvcStale
               /\ pvc[me.c].exists
               /\ pvc' = [pvc EXCEPT ![me.c] = new]
               /\ proc' = [(IF new # pvc[me.c] THEN StalePVC(proc, me.c, w)
                            ELSE proc) EXCEPT ![w] =
                      [me EXCEPT !.at = AfterPVCStatus(me),
                                 !.br = IF me.br = "D1" THEN "D2" ELSE me.br]]
          ELSE /\ pvc' = pvc
               /\ proc' = [proc EXCEPT ![w] = Failure(me)]
    /\ UNCHANGED <<pv, running>>

\* syncPV goes on to the claim pointer checks when DeletePV has failed.
DeletePVFailureGoesOn(w, ok) ==
    /\ proc[w].at = "del"
    /\ LET me == proc[w]
       IN IF ok
          THEN /\ pv[me.v].exists
               /\ pv' = [pv EXCEPT ![me.v] = Gone(pv[me.v])]
               /\ proc' = [StalePV(proc, me.v, w) EXCEPT ![w] =
                      [me EXCEPT !.at = "done", !.lpv = NoPV]]
          ELSE /\ pv' = pv
               /\ proc' = [proc EXCEPT ![w] =
                      [me EXCEPT !.at = "read", !.ok = FALSE]]
    /\ UNCHANGED <<pvc, running>>

\* upgradePVFrom12: DeletePV(pv) of a placeholder PV, then syncPV returns.
DeletePV(w, ok) ==
    /\ proc[w].at = "del"
    /\ LET me == proc[w]
       IN IF ok
          THEN /\ pv[me.v].exists
               /\ pv' = [pv EXCEPT ![me.v] = Gone(pv[me.v])]
               /\ proc' = [StalePV(proc, me.v, w) EXCEPT ![w] =
                      [me EXCEPT !.at = "done", !.lpv = NoPV]]
          ELSE /\ pv' = pv
               /\ proc' = [proc EXCEPT ![w] =
                      [me EXCEPT !.at = "done", !.ok = FALSE, !.lpv = NoPV]]
    /\ UNCHANGED <<pvc, running>>

\* ----------------------------------------------------------- work registry
\* The goroutine is launched whether or not its key is in the map.
StartUniqueUnchecked(R, job) ==
    LET same == {j \in R : j.kind = job.kind /\ j.name = job.name
                                            /\ j.uid = job.uid}
    IN R \cup {[job EXCEPT !.id = Cardinality(same) + 1]}

\* "maintain a map with the current ... goroutines that are running; if the
\* key is already present in the map, return; launch the goroutine".  One map
\* per kind of job, keyed by the UID of the object the job works for.
StartUnique(R, job) ==
    IF \E j \in R : j.kind = job.kind /\ j.name = job.name /\ j.uid = job.uid
    THEN R
    ELSE R \cup {job}

\* A goroutine: its kind, its key (the name and UID of the object it works
\* for) and its number among the running goroutines of that kind and key.
Job(kind, name, uid) == [kind |-> kind, name |-> name, uid |-> uid, id |-> 1]

\* SyncPVC, no PV found and a storage class requested: with a provisioner
\* plugin the provisioning job is launched, without one an event is made.
DispatchProvision(w, plugin) ==
    /\ proc[w].fn = "SyncPVC"
    /\ proc[w].at = "dispatch"
    /\ running' = IF plugin
                  THEN StartUnique(running,
                                   Job("provision", proc[w].c, proc[w].cuid))
                  ELSE running
    /\ proc' = [proc EXCEPT ![w].at = "done"]
    /\ UNCHANGED <<pv, pvc>>

\* Without a plugin syncPV makes the event and returns: the PV stays Released.
DispatchReclaimNoPluginReturns(w, plugin) ==
    /\ proc[w].fn = "syncPV"
    /\ proc[w].at = "dispatch"
    /\ LET me == proc[w]
           kind == IF me.pol = "Delete" THEN "delete" ELSE "recycle"
       IN /\ running' = IF plugin
                        THEN StartUnique(running, Job(kind, me.v, me.vuid))
                        ELSE running
          /\ proc' = [proc EXCEPT ![w].at = "done"]
    /\ UNCHANGED <<pv, pvc>>

\* syncPV, the PV was released and its policy is Delete or Recycle: with a
\* plugin the job is launched, without one the PV is marked Failed.
DispatchReclaim(w, plugin) ==
    /\ proc[w].fn = "syncPV"
    /\ proc[w].at = "dispatch"
    /\ LET me == proc[w]
           kind == IF me.pol = "Delete" THEN "delete" ELSE "recycle"
       IN IF plugin
          THEN /\ running' = StartUnique(running, Job(kind, me.v, me.vuid))
               /\ proc' = [proc EXCEPT ![w].at = "done"]
          ELSE /\ running' = running
               /\ proc' = [proc EXCEPT ![w] =
                      [me EXCEPT !.br = "M", !.at = "pvs"]]
    /\ UNCHANGED <<pv, pvc>>

\* The deleter goroutine: deletes the storage asset, deletes the PV API
\* object, deletes itself from the map.
JobDelete(j, ok) ==
    /\ j \in running
    /\ j.kind = "delete"
    /\ running' = running \ {j}
    /\ IF ok /\ pv[j.name].exists /\ pv[j.name].uid = j.uid
       THEN /\ pv' = [pv EXCEPT ![j.name] = Gone(pv[j.name])]
            /\ proc' = StalePV(proc, j.name, NULL)
       ELSE UNCHANGED <<pv, proc>>
    /\ UNCHANGED pvc

\* The recycler goroutine leaves ClaimRef and the annotation in place.
JobRecycleKeepsClaimRef(j, ok) ==
    /\ j \in running
    /\ j.kind = "recycle"
    /\ running' = running \ {j}
    /\ IF /\ ok
          /\ pv[j.name].exists
          /\ pv[j.name].uid = j.uid
          /\ pv[j.name].phase = Released
       THEN /\ pv' = [pv EXCEPT ![j.name] =
                  [@ EXCEPT !.phase = Available, !.cpuid = 0]]
            /\ proc' = StalePV(proc, j.name, NULL)
       ELSE UNCHANGED <<pv, proc>>
    /\ UNCHANGED pvc

\* The recycler goroutine: verifies that the PV still needs to be recycled,
\* waits for the scrubber pod, marks the PV available, clears ClaimRef.UID
\* and, if boundByController, ClaimRef and the annotation; then deletes
\* itself from the map.
JobRecycle(j, ok) ==
    /\ j \in running
    /\ j.kind = "recycle"
    /\ running' = running \ {j}
    /\ IF /\ ok
          /\ pv[j.name].exists
          /\ pv[j.name].uid = j.uid
          /\ pv[j.name].phase = Released
       THEN /\ pv' = [pv EXCEPT ![j.name] =
                  IF hasAnnotation(@, "annBoundByController")
                  THEN [@ EXCEPT !.phase = Available, !.cpuid = 0,
                                 !.cp = NULL, !.bbc = FALSE]
                  ELSE [@ EXCEPT !.phase = Available, !.cpuid = 0]]
            /\ proc' = StalePV(proc, j.name, NULL)
       ELSE UNCHANGED <<pv, proc>>
    /\ UNCHANGED pvc

\* A provisioner goroutine that fails exits without deleting itself from the
\* map: its entry stays behind (id 0) and is never run again.
JobProvisionFailureKeepsKey(j, ok, v, withUID, pol) ==
    /\ j \in running
    /\ j.kind = "provision"
    /\ j.id # 0
    /\ IF ok /\ ~pv[v].exists /\ Created < MaxCreates
       THEN /\ running' = running \ {j}
            /\ pv' = [pv EXCEPT ![v] =
                  [exists |-> TRUE, uid |-> pv[v].uid + 1, cp |-> j.name,
                   cpuid |-> IF withUID THEN j.uid ELSE 0, phase |-> Pending,
                   bbc |-> FALSE, policy |-> pol, placeholder |-> FALSE]]
            /\ proc' = StalePV(proc, v, NULL)
       ELSE /\ running' = (running \ {j}) \cup {[j EXCEPT !.id = 0]}
            /\ UNCHANGED <<pv, proc>>
    /\ UNCHANGED pvc

\* The provisioner goroutine: calls plugin.Provision, gets back a PV object,
\* creates the PV API object with claimRef -> pvc, deletes itself from the
\* map.  The source does not say whether claimRef carries the UID of the PVC
\* (withUID), nor the reclaim policy the plugin fills in.
JobProvision(j, ok, v, withUID, pol) ==
    /\ j \in running
    /\ j.kind = "provision"
    /\ running' = running \ {j}
    /\ IF ok /\ ~pv[v].exists /\ Created < MaxCreates
       THEN /\ pv' = [pv EXCEPT ![v] =
                  [exists |-> TRUE, uid |-> pv[v].uid + 1, cp |-> j.name,
                   cpuid |-> IF withUID THEN j.uid ELSE 0, phase |-> Pending,
                   bbc |-> FALSE, policy |-> pol, placeholder |-> FALSE]]
            /\ proc' = StalePV(proc, v, NULL)
       ELSE UNCHANGED <<pv, proc>>
    /\ UNCHANGED pvc

\* ----------------------------------------------------------- control loop
\* The handler of a PVC DELETE event stops after syncPVC.
ReturnHandlerStops(w) ==
    /\ proc[w].at = "done"
    /\ proc' = [proc EXCEPT ![w] = IdleProc]
    /\ UNCHANGED <<pv, pvc, running>>

\* A pass returns.  The handler of a PVC DELETE event goes on with syncPV of
\* pvc.Spec.VolumePtr when that pointer is not nil.
Return(w) ==
    /\ proc[w].at = "done"
    /\ LET me == proc[w]
       IN proc' = [proc EXCEPT ![w] =
            IF /\ me.fn = "SyncPVC"
               /\ me.del
               /\ me.vp # NULL
               /\ pv[me.vp].exists
            THEN [IdleProc EXCEPT !.fn = "syncPV", !.v = me.vp,
                                  !.lpv = pv[me.vp], !.vuid = pv[me.vp].uid,
                                  !.pol = pv[me.vp].policy,
                                  !.at = upgradePVFrom12(pv[me.vp])]
            ELSE IdleProc]
    /\ UNCHANGED <<pv, pvc, running>>

\* The controller process is killed and restarted: every pass in progress is
\* abandoned and the work registry, which lives in its memory, is empty.
Crash ==
    /\ \E w \in Workers : proc[w].at # "idle"
    /\ proc' = [w \in Workers |-> IdleProc]
    /\ running' = {}
    /\ UNCHANGED <<pv, pvc>>

\* ------------------------------------------------------- the specification
\* No resync is under way: objects are reconciled one by one, as their
\* events come.
NoResync == [round |-> 0, todo |-> {}, snaps |-> <<>>]

Init ==
    /\ pv = [v \in PVs |-> NoPV]
    /\ pvc = [c \in PVCs |-> NoPVC]
    /\ proc = [w \in Workers |-> IdleProc]
    /\ running = {}
    /\ resync = NoResync

\* What the owners of the objects do; pols, phs and clss are the reclaim
\* policies, placeholder markers and storage class requests they use.
Environment(pols, phs, clss) ==
    \/ \E c \in PVCs, want \in PVs \cup {NULL}, cls \in clss :
          CreatePVC(c, want, cls)
    \/ \E c \in PVCs : DeletePVC(c)
    \/ \E v \in PVs, reserve \in PVCs \cup {NULL}, withUID \in BOOLEAN,
          pol \in pols, ph \in phs :
          CreatePV(v, reserve, withUID, pol, ph)
    \/ \E v \in PVs : DeletePVObject(v)

\* The steps of the passes that the workers W are running, one store call at
\* a time; oks: whether a store write may succeed (TRUE) and fail (FALSE).
Steps(W, oks) ==
    \/ \E w \in W : SyncPVCRead(w)
    \/ \E w \in W : SyncPVRead(w)
    \/ \E w \in W, ok \in oks : CommitPV(w, ok)
    \/ \E w \in W, ok \in oks : CommitPVStatus(w, ok)
    \/ \E w \in W, ok \in oks : CommitPVC(w, ok)
    \/ \E w \in W, ok \in oks : CommitPVCStatus(w, ok)
    \/ \E w \in W : Return(w)

\* The passes of SyncPVC and syncPV on the workers W: any object may be
\* handed to its reconciler at any time.
Passes(W, oks) ==
    \/ \E w \in W, c \in PVCs : StartSyncPVC(w, c)
    \/ \E w \in W, v \in PVs : StartSyncPV(w, v)
    \/ Steps(W, oks)

\* One pass at a time.
Serial == {"w1"}

\* Binding: PVs that are retained, PVCs without storage class, no legacy
\* placeholder.  The release, provisioning and legacy branches need objects
\* this specification does not create.
Next ==
    /\ \/ Environment({"Retain"}, {FALSE}, {FALSE})
       \/ Passes(Serial, BOOLEAN)
       \/ Crash
    /\ UNCHANGED resync

Spec == Init /\ [][Next]_vars

\* Recycling: PVs that are recycled when their PVC is deleted, and the
\* recycler job, with or without a plugin.
NextRecycle ==
    /\ \/ Environment({"Recycle"}, {FALSE}, {FALSE})
       \/ Passes(Serial, BOOLEAN)
       \/ \E w \in Serial, plugin \in BOOLEAN : DispatchReclaim(w, plugin)
       \/ \E j \in running, ok \in BOOLEAN : JobRecycle(j, ok)
       \/ Crash
    /\ UNCHANGED resync

SpecRecycle == Init /\ [][NextRecycle]_vars

\* ------------------------------------------------------------- scheduling
\* The next step of the pass worker w is running, its store write succeeding.
Step(w) ==
    /\ \/ SyncPVCRead(w)
       \/ SyncPVRead(w)
       \/ CommitPV(w, TRUE)
       \/ CommitPVStatus(w, TRUE)
       \/ CommitPVC(w, TRUE)
       \/ CommitPVCStatus(w, TRUE)
       \/ Return(w)
    /\ UNCHANGED resync

\* Every object is handed to its reconciler again and again, as its events
\* and the periodic resync come, and a pass that has started goes on to its
\* end unless the process is killed.
Resync(W) ==
    /\ \A c \in PVCs :
          SF_vars(\E w \in W : StartSyncPVC(w, c) /\ UNCHANGED resync)
    /\ \A v \in PVs :
          SF_vars(\E w \in W : StartSyncPV(w, v) /\ UNCHANGED resync)
    /\ \A w \in W : WF_vars(Step(w))

\* Store writes that do not fail.
Succeed == {TRUE}

\* Objects as their owners may have made them, before any pass has run.
NewPV(reserve) ==
    [exists |-> TRUE, uid |-> 1, cp |-> reserve, cpuid |-> 0,
     phase |-> Pending, bbc |-> FALSE, policy |-> "Retain",
     placeholder |-> FALSE]

NewPVC(want) ==
    [exists |-> TRUE, uid |-> 1, vp |-> want, phase |-> Pending,
     wab |-> FALSE, bbc |-> FALSE, class |-> FALSE]

\* Pre-bind from the PV side: v1 was created reserved for c1 (claim pointer
\* without UID, no annotation) and c1 wants no PV in particular.  A second
\* PV and a second PVC may be there too.
InitPreBindPV ==
    /\ \E o \in {NoPV, NewPV(NULL)} :
          pv = [v \in PVs |-> IF v = "v1" THEN NewPV("c1") ELSE o]
    /\ \E o \in {NoPVC, NewPVC(NULL)} :
          pvc = [c \in PVCs |-> IF c = "c1" THEN NewPVC(NULL) ELSE o]
    /\ proc = [w \in Workers |-> IdleProc]
    /\ running = {}
    /\ resync = NoResync

\* A broken link and a rival: c1 was bound to v1, which was deleted and
\* created again (nil claim pointer); c2 is new and wants any PV, or v1, and
\* v2 may be there for it.
InitBrokenLink ==
    /\ \E o \in {NoPV, NewPV(NULL)} :
          pv = [v \in PVs |-> IF v = "v1" THEN [NewPV(NULL) EXCEPT !.uid = 2]
                               ELSE o]
    /\ \E want \in {NULL, "v1"} :
          pvc = [c \in PVCs |->
                   IF c = "c1"
                   THEN [NewPVC("v1") EXCEPT !.wab = TRUE, !.bbc = TRUE,
                                             !.phase = Bound]
                   ELSE NewPVC(want)]

\* Two free PVs and a new PVC that wants any PV; a second one may be there.
InitBindRace ==
    /\ pv = [v \in PVs |-> NewPV(NULL)]
    /\ \E o \in {NoPVC, NewPVC(NULL)} :
          pvc = [c \in PVCs |-> IF c = "c1" THEN NewPVC(NULL) ELSE o]

InitRace ==
    /\ InitBrokenLink \/ InitBindRace
    /\ proc = [w \in Workers |-> IdleProc]
    /\ running = {}
    /\ resync = NoResync

\* Two passes at a time, the process may be killed, nothing else happens.
NextRace ==
    /\ \/ Passes(Workers, BOOLEAN)
       \/ Crash
    /\ UNCHANGED resync

SpecRace == InitRace /\ [][NextRace]_vars

\* Match and bind: v1 is free, v2 may be there and free too, c1 is new and
\* wants any PV.
InitBind ==
    /\ \E o \in {NoPV, NewPV(NULL)}, ph \in {Pending, Available} :
          pv = [v \in PVs |-> IF v = "v1" THEN [NewPV(NULL) EXCEPT !.phase = ph]
                               ELSE o]
    /\ pvc = [c \in PVCs |-> IF c = "c1" THEN NewPVC(NULL) ELSE NoPVC]
    /\ proc = [w \in Workers |-> IdleProc]
    /\ running = {}
    /\ resync = NoResync

\* One pass at a time, no store write fails, the process may be killed at
\* any store call.
NextBind ==
    /\ \/ Passes(Serial, Succeed)
       \/ Crash
    /\ UNCHANGED resync

SpecBind == InitBind /\ [][NextBind]_vars /\ Resync(Serial)

NextPreBindPV == Passes(Serial, Succeed) /\ UNCHANGED resync

SpecPreBindPV == InitPreBindPV /\ [][NextPreBindPV]_vars /\ Resync(Serial)

\* A pair that is bound: v1 with reclaim policy pol and c1, their pointers
\* set by the controller (annBoundByController) or by the user.
InitBoundPair(pol) ==
    /\ \E b \in BOOLEAN :
          pv = [v \in PVs |->
                  IF v = "v1"
                  THEN [NewPV("c1") EXCEPT !.cpuid = 1, !.bbc = b,
                                           !.phase = Bound, !.policy = pol]
                  ELSE NoPV]
    /\ \E b \in BOOLEAN :
          pvc = [c \in PVCs |->
                   IF c = "c1"
                   THEN [NewPVC("v1") EXCEPT !.wab = TRUE, !.bbc = b,
                                             !.phase = Bound]
                   ELSE NoPVC]
    /\ proc = [w \in Workers |-> IdleProc]
    /\ running = {}
    /\ resync = NoResync

\* The store call of worker w fails with Conflict or NotFound: the stored
\* object changed under the local copy, or it is gone.
Conflict(w) ==
    /\ \/ proc[w].pvStale /\ (CommitPV(w, FALSE) \/ CommitPVStatus(w, FALSE))
       \/ proc[w].pvcStale /\ (CommitPVC(w, FALSE) \/ CommitPVCStatus(w, FALSE))
    /\ UNCHANGED resync

\* Watch(PVClaims) delivers the DELETE event of PVC c once: the PVC is gone
\* and the handler starts with syncPVC on its last state.
DeleteClaimEvent(w, c) ==
    /\ proc[w].at = "idle"
    /\ pvc[c].exists
    /\ pvc' = [pvc EXCEPT ![c].exists = FALSE]
    /\ proc' = [StalePVC(proc, c, NULL) EXCEPT ![w] =
            [IdleProc EXCEPT !.fn = "SyncPVC", !.at = "read", !.c = c,
                             !.lpvc = pvc'[c], !.cuid = pvc[c].uid,
                             !.vp = pvc[c].vp, !.del = TRUE,
                             !.pvcStale = TRUE]]
    /\ UNCHANGED <<pv, running>>

\* The jobs that were launched go on to their end.
Jobs ==
    /\ \A w \in Workers :
          WF_vars(DispatchReclaim(w, TRUE) /\ UNCHANGED resync)
    /\ WF_vars(\E j \in running :
                  (JobDelete(j, TRUE) \/ JobRecycle(j, TRUE))
                  /\ UNCHANGED resync)

\* The PVC of a bound pair is deleted, the policy of its PV is Delete and a
\* deleter plugin is configured: one pass at a time, events may be replayed,
\* a store write fails only on an object that is gone, and the deleter job
\* succeeds.
NextDeleteClaim ==
    \/ /\ \/ DeletePVC("c1")
          \/ Passes(Serial, Succeed)
          \/ \E w \in Serial : DispatchReclaim(w, TRUE)
          \/ \E j \in running : JobDelete(j, TRUE)
       /\ UNCHANGED resync
    \/ \E w \in Serial : Conflict(w)

SpecDeleteClaim ==
    InitBoundPair("Delete") /\ [][NextDeleteClaim]_vars
    /\ Resync(Serial) /\ Jobs /\ \A w \in Serial : WF_vars(Conflict(w))

\* The PVs are handed to syncPV again and again, and a pass that has started
\* goes on to its end.
ResyncPVs(W) ==
    /\ \A v \in PVs :
          SF_vars(\E w \in W : StartSyncPV(w, v) /\ UNCHANGED resync)
    /\ \A w \in W : WF_vars(Step(w))

\* The PVC of a bound pair is deleted, the policy of its PV is Recycle and a
\* recycler plugin is configured: the DELETE event is handled once, the PV is
\* reconciled any number of times, no store write fails and the scrubber pod
\* succeeds.
NextRecycleClaim ==
    /\ \/ \E w \in Serial : DeleteClaimEvent(w, "c1")
       \/ \E w \in Serial, v \in PVs : StartSyncPV(w, v)
       \/ \E w \in Serial, c \in PVCs : pvc[c].exists /\ StartSyncPVC(w, c)
       \/ Steps(Serial, Succeed)
       \/ \E w \in Serial : DispatchReclaim(w, TRUE)
       \/ \E j \in running : JobRecycle(j, TRUE)
    /\ UNCHANGED resync

SpecRecycleClaim ==
    InitBoundPair("Recycle") /\ [][NextRecycleClaim]_vars
    /\ ResyncPVs(Serial) /\ Jobs

\* The PVC of a bound pair is deleted and the policy of its PV is Retain, or
\* Delete with a deleter: two passes at a time, events may be replayed,
\* store writes may fail, and the PVs are reconciled again and again.
InitRetain == InitBoundPair("Retain") \/ InitBoundPair("Delete")

NextRetain ==
    /\ \/ DeletePVC("c1")
       \/ Passes(Workers, BOOLEAN)
       \/ \E w \in Workers : DispatchReclaim(w, TRUE)
       \/ \E j \in running : JobDelete(j, TRUE)
    /\ UNCHANGED resync

SpecRetain == InitRetain /\ [][NextRetain]_vars /\ ResyncPVs(Workers)

\* The periodic resync hands an object to its reconciler (syncAllPVCs goes
\* through the PVCs that exist).
ResyncStart ==
    /\ \/ \E w \in Workers, v \in PVs : StartSyncPV(w, v)
       \/ \E w \in Workers, c \in PVCs : pvc[c].exists /\ StartSyncPVC(w, c)
    /\ UNCHANGED resync

\* The PVC of a bound pair is deleted and its DELETE event is delivered
\* once, or missed; the periodic resync takes place or not; two passes at a
\* time, store writes may fail.
NextReleaseClaim ==
    \/ /\ \/ \E w \in Workers : DeleteClaimEvent(w, "c1")
          \/ DeletePVC("c1")
          \/ Steps(Workers, BOOLEAN)
       /\ UNCHANGED resync
    \/ ResyncStart

SpecReleaseClaim ==
    InitBoundPair("Retain") /\ [][NextReleaseClaim]_vars
    /\ ResyncPVs(Workers)

\* Upgrade from 1.2: v1 is a placeholder PV, pre-bound to c1 with or without
\* its UID; v2 is not there, or is a free PV; c1 is new and wants any PV, or
\* v1.  Two passes at a time, store calls may fail.
InitLegacy ==
    /\ \E u \in {0, 1}, o \in {NoPV, NewPV(NULL)} :
          pv = [v \in PVs |->
                  IF v = "v1"
                  THEN [NewPV("c1") EXCEPT !.cpuid = u, !.placeholder = TRUE]
                  ELSE o]
    /\ \E want \in {NULL, "v1"} :
          pvc = [c \in PVCs |-> IF c = "c1" THEN NewPVC(want) ELSE NoPVC]
    /\ proc = [w \in Workers |-> IdleProc]
    /\ running = {}
    /\ resync = NoResync

NextLegacy ==
    /\ \/ Passes(Workers, BOOLEAN)
       \/ \E w \in Workers, ok \in BOOLEAN : DeletePV(w, ok)
    /\ UNCHANGED resync

SpecLegacy == InitLegacy /\ [][NextLegacy]_vars

\* Two controllers at once: a store write fails when it meets a conflict and
\* at no other time, and every object is reconciled again and again.
NextBindRace ==
    \/ Passes(Workers, Succeed) /\ UNCHANGED resync
    \/ \E w \in Workers : Conflict(w)

SpecBindRace ==
    InitBind /\ [][NextBindRace]_vars
    /\ Resync(Workers) /\ \A w \in Workers : WF_vars(Conflict(w))

\* A broken link with two claimants: c1 and c2 were bound before and both
\* point to v1, whose claim pointer is nil.
InitRepairRace ==
    /\ \E b \in BOOLEAN, ph \in {Available, Bound} :
          pv = [v \in PVs |->
                  IF v = "v1"
                  THEN [NewPV(NULL) EXCEPT !.bbc = b, !.phase = ph]
                  ELSE NoPV]
    /\ \E b \in BOOLEAN :
          pvc = [c \in PVCs |->
                   [NewPVC("v1") EXCEPT !.wab = TRUE, !.bbc = b,
                                        !.phase = Bound]]
    /\ proc = [w \in Workers |-> IdleProc]
    /\ running = {}
    /\ resync = NoResync

SpecRepairRace ==
    InitRepairRace /\ [][NextBindRace]_vars
    /\ Resync(Workers) /\ \A w \in Workers : WF_vars(Conflict(w))

\* Match and bind with store writes that may fail: one pass at a time, no
\* kill, every object reconciled again and again.
NextBindRetry == Passes(Serial, BOOLEAN) /\ UNCHANGED resync

SpecBindRetry == InitBind /\ [][NextBindRetry]_vars /\ Resync(Serial)

\* Binding in progress, two passes at a time and store writes that may fail:
\* v1 is free or reserved for c1, and c1 is new.
InitInProgress == InitBind \/ InitPreBindPV

NextInProgress == Passes(Workers, BOOLEAN) /\ UNCHANGED resync

SpecInProgress == InitInProgress /\ [][NextInProgress]_vars

\* A new PVC that has to wait: v1 and c2 are bound to each other (their
\* phases may be yet to be written), there is no other PV, and c1 is new,
\* without storage class: it wants any PV, or v2, or v1, with or without
\* annBoundByController.
InitWaiting ==
    /\ \E ph \in {Available, Bound} :
          pv = [v \in PVs |->
                  IF v = "v1"
                  THEN [NewPV("c2") EXCEPT !.cpuid = 1, !.bbc = TRUE,
                                           !.phase = ph]
                  ELSE NoPV]
    /\ \E want \in PVs \cup {NULL}, b \in BOOLEAN, ph \in {Pending, Bound} :
          /\ b => want # NULL
          /\ pvc = [c \in PVCs |->
                      IF c = "c1"
                      THEN [NewPVC(want) EXCEPT !.bbc = b]
                      ELSE [NewPVC("v1") EXCEPT !.wab = TRUE, !.bbc = TRUE,
                                                !.phase = ph]]
    /\ proc = [w \in Workers |-> IdleProc]
    /\ running = {}
    /\ resync = NoResync

SpecWaiting == InitWaiting /\ [][NextInProgress]_vars

\* A claim bound elsewhere: c1 and v2 are bound to each other, and the claim
\* pointer of v1 carries the UID of c1 as well, written by the controller
\* (annBoundByController) or by the creator of v1.
InitElsewhere ==
    /\ \E b1, b2 \in BOOLEAN, ph \in {Pending, Available, Bound} :
          pv = [v \in PVs |->
                  IF v = "v1"
                  THEN [NewPV("c1") EXCEPT !.cpuid = 1, !.bbc = b1,
                                           !.phase = ph]
                  ELSE [NewPV("c1") EXCEPT !.cpuid = 1, !.bbc = b2,
                                           !.phase = Bound]]
    /\ \E b \in BOOLEAN :
          pvc = [c \in PVCs |->
                   IF c = "c1"
                   THEN [NewPVC("v2") EXCEPT !.wab = TRUE, !.bbc = b,
                                             !.phase = Bound]
                   ELSE NoPVC]
    /\ proc = [w \in Workers |-> IdleProc]
    /\ running = {}
    /\ resync = NoResync

SpecElsewhere == InitElsewhere /\ [][NextBindRetry]_vars /\ Resync(Serial)

\* Pre-bind from the PVC side: the user created c1 with a volume pointer to
\* v1, which exists and is not claimed; a second free PV may be there.
InitPreBindPVC ==
    /\ \E o \in {NoPV, NewPV(NULL)}, ph \in {Pending, Available} :
          pv = [v \in PVs |-> IF v = "v1" THEN [NewPV(NULL) EXCEPT !.phase = ph]
                               ELSE o]
    /\ pvc = [c \in PVCs |-> IF c = "c1" THEN NewPVC("v1") ELSE NoPVC]
    /\ proc = [w \in Workers |-> IdleProc]
    /\ running = {}
    /\ resync = NoResync

SpecPreBindPVC == InitPreBindPVC /\ [][NextBindRetry]_vars /\ Resync(Serial)

\* The PV of a bound pair is deleted by its owner; one pass at a time, store
\* writes may fail, every object is reconciled again and again.
NextDeleteVolume ==
    /\ \/ DeletePVObject("v1")
       \/ Passes(Serial, BOOLEAN)
    /\ UNCHANGED resync

\* v1 and c1 are bound to each other; a free PV v2 and a new PVC c2 that
\* wants any PV may be there too.
InitDeleteVolume ==
    /\ \E o \in {NoPV, NewPV(NULL)}, b \in BOOLEAN :
          pv = [v \in PVs |->
                  IF v = "v1"
                  THEN [NewPV("c1") EXCEPT !.cpuid = 1, !.bbc = b,
                                           !.phase = Bound]
                  ELSE o]
    /\ \E o \in {NoPVC, NewPVC(NULL)}, b \in BOOLEAN :
          pvc = [c \in PVCs |->
                   IF c = "c1"
                   THEN [NewPVC("v1") EXCEPT !.wab = TRUE, !.bbc = b,
                                             !.phase = Bound]
                   ELSE o]
    /\ proc = [w \in Workers |-> IdleProc]
    /\ running = {}
    /\ resync = NoResync

SpecDeleteVolume ==
    InitDeleteVolume /\ [][NextDeleteVolume]_vars /\ Resync(Serial)

\* The work registry under two controllers' worth of passes: the PVC of a
\* bound pair is deleted, the policy of the PV is Delete or Recycle, a plugin
\* is configured or not, store writes and jobs succeed or fail.
InitRegistry == InitBoundPair("Delete") \/ InitBoundPair("Recycle")

NextRegistry ==
    /\ \/ DeletePVC("c1")
       \/ Passes(Workers, BOOLEAN)
       \/ \E w \in Workers, plugin \in BOOLEAN : DispatchReclaim(w, plugin)
       \/ \E j \in running, ok \in BOOLEAN : JobDelete(j, ok)
       \/ \E j \in running, ok \in BOOLEAN : JobRecycle(j, ok)
    /\ UNCHANGED resync

SpecRegistry == InitRegistry /\ [][NextRegistry]_vars

\* The PVC of a bound pair is deleted, the policy of its PV is Delete or
\* Recycle, and no plugin is configured for it: one pass at a time, events
\* may be replayed, store writes may fail.
NextNoPlugin ==
    /\ \/ DeletePVC("c1")
       \/ Passes(Serial, BOOLEAN)
       \/ \E w \in Serial : DispatchReclaim(w, FALSE)
    /\ UNCHANGED resync

SpecNoPlugin ==
    InitRegistry /\ [][NextNoPlugin]_vars
    /\ Resync(Serial)
    /\ \A w \in Serial : WF_vars(DispatchReclaim(w, FALSE) /\ UNCHANGED resync)

\* Provisioning: c1 is new, wants any PV and requests a storage class; no PV
\* exists.
InitProvision ==
    /\ pv = [v \in PVs |-> NoPV]
    /\ pvc = [c \in PVCs |->
                IF c = "c1" THEN [NewPVC(NULL) EXCEPT !.class = TRUE]
                ELSE NoPVC]
    /\ proc = [w \in Workers |-> IdleProc]
    /\ running = {}
    /\ resync = NoResync

\* The provisioner job ends, with or without a PV.
ProvisionerEnds ==
    \E j \in running, ok \in BOOLEAN, v \in PVs, withUID \in BOOLEAN :
        JobProvision(j, ok, v, withUID, "Retain")

\* One pass at a time, a provisioner plugin is configured, no store write
\* fails, the provisioner job succeeds or fails.
NextProvision ==
    /\ \/ Passes(Serial, Succeed)
       \/ \E w \in Serial : DispatchProvision(w, TRUE)
       \/ ProvisionerEnds
    /\ UNCHANGED resync

SpecProvision ==
    InitProvision /\ [][NextProvision]_vars
    /\ Resync(Serial)
    /\ WF_vars(ProvisionerEnds /\ UNCHANGED resync)
    /\ \A w \in Serial :
          WF_vars(DispatchProvision(w, TRUE) /\ UNCHANGED resync)

\* ------------------------------------------------------ the full resync
\* Number of full resyncs that are run one after the other.
Rounds == 2

\* The objects that exist.
Existing == {c \in PVCs : pvc[c].exists} \cup {v \in PVs : pv[v].exists}

\* PVs and PVCs as their owners and earlier passes may have left them.  A PV
\* has no claim pointer, or one to a PVC by name, or one with the UID of the
\* PVC, set by the controller (annBoundByController) or not.  A PVC is new
\* and wants any PV or a PV by name, or it was bound to a PV before.
SomePV ==
    {NoPV} \cup
    {[NewPV(NULL) EXCEPT !.phase = ph] : ph \in {Pending, Available, Bound}}
    \cup
    {[NewPV(c) EXCEPT !.cpuid = u, !.bbc = b, !.phase = ph] :
        c \in PVCs, u \in {0, 1}, b \in BOOLEAN,
        ph \in {Pending, Available, Bound}}

SomePVC ==
    {NoPVC} \cup
    {NewPVC(v) : v \in PVs \cup {NULL}} \cup
    {[NewPVC(v) EXCEPT !.wab = TRUE, !.bbc = b, !.phase = ph] :
        v \in PVs, b \in BOOLEAN, ph \in {Pending, Bound, Lost}}

InitResync ==
    /\ pv \in [PVs -> SomePV]
    /\ pvc \in [PVCs -> SomePVC]
    /\ pv["v1"].exists
    /\ pvc["c1"].exists
    /\ proc = [w \in Workers |-> IdleProc]
    /\ running = {}
    /\ resync = [round |-> 1, todo |-> Existing, snaps |-> <<>>]

\* syncAllPVCs: "for each pvc", in any order.
syncAllPVCs(w) ==
    \E c \in resync.todo \cap PVCs :
        /\ StartSyncPVC(w, c)
        /\ resync' = [resync EXCEPT !.todo = @ \ {c}]

\* syncAllPVs: "for each pv", in any order, once syncAllPVCs is through.
syncAllPVs(w) ==
    /\ resync.todo \cap PVCs = {}
    /\ \E v \in resync.todo \cap PVs :
          /\ StartSyncPV(w, v)
          /\ resync' = [resync EXCEPT !.todo = @ \ {v}]

\* Periodically("15s", ...): the resync is through, the next one starts.
Periodically ==
    /\ resync.round \in 1..Rounds
    /\ resync.todo = {}
    /\ \A w \in Workers : proc[w].at = "idle"
    /\ resync' = [round |-> resync.round + 1,
                  todo |-> IF resync.round < Rounds THEN Existing ELSE {},
                  snaps |-> Append(resync.snaps, <<pv, pvc>>)]
    /\ UNCHANGED <<pv, pvc, proc, running>>

\* Full resyncs one after the other: no event, no failed store write, no
\* kill.
NextResync ==
    \/ \E w \in Serial : syncAllPVCs(w)
    \/ \E w \in Serial : syncAllPVs(w)
    \/ Steps(Serial, Succeed) /\ UNCHANGED resync
    \/ Periodically

SpecResync == InitResync /\ [][NextResync]_vars

\* ------------------------------------------------------------- quiescence
\* The branches SyncPVC may take for PVC c as it is stored now.
SyncPVCBranches(c) ==
    LET lc == pvc[c]
        found == IF ~hasAnnotation(lc, "annWasEverBound") /\ lc.vp = NULL
                 THEN FindAcceptablePV(c, lc)
                 ELSE GetPV(lc.vp)
    IN {SyncPVCBranch(lc, c, v, IF v = NULL THEN NoPV ELSE pv[v]) :
          v \in (IF found = {} THEN {NULL} ELSE found)}

\* SyncPVC(c) would change nothing: it returns without a store call, or the
\* phase it commits is the phase stored.
SettledPVC(c) ==
    \A br \in SyncPVCBranches(c) :
       \/ br \in {"N", "W", "X", "F0"}
       \/ br \in {"D1", "D2", "G"} /\ pvc[c].phase = Lost

\* The branch syncPV takes for PV v as it is stored now.
SyncPVBranchNow(v) ==
    LET got == GetPVC(pv[v])
    IN SyncPVBranch(pv[v], v, IF got = {} THEN NULL ELSE CHOOSE x \in got : TRUE)

\* syncPV(v) would change nothing.
SettledPV(v) ==
    /\ ~isPlaceholderPV(pv[v])
    /\ LET br == SyncPVBranchNow(v)
       IN \/ br \in {"K", "Y", "P0"}
          \/ br \in {"H", "Z"} /\ pv[v].phase = Available
          \/ br = "R" /\ pv[v].phase = Released /\ pv[v].policy = "Retain"

\* No pass and no job is in progress and every object has been reconciled:
\* a pass on any of them would change nothing.
Quiescent ==
    /\ \A w \in Workers : proc[w].at = "idle"
    /\ running = {}
    /\ resync = NoResync
    /\ \A c \in PVCs : pvc[c].exists => SettledPVC(c)
    /\ \A v \in PVs : pv[v].exists => SettledPV(v)

\* ================================================================== claims

\* PVC c is Lost in the store.
IsLost(c) == pvc[c].exists /\ pvc[c].phase = Lost

\* C1: Lost is terminal on Claims: once the committed phase of a Claim is
\* Lost, no later step commits a different phase on that Claim, and no step
\* writes the UID of that Claim into the claim pointer of a Volume.
C1_LostIsTerminal ==
    [][\A c \in PVCs :
         (IsLost(c) /\ pvc'[c].exists /\ pvc'[c].uid = pvc[c].uid)
         => /\ pvc'[c].phase = Lost
            /\ \A v \in PVs :
                 ClaimPtrUID(pv'[v]) = UID(c, pvc[c])
                 => ClaimPtrUID(pv[v]) = UID(c, pvc[c])]_vars

\* The state scenario 3 ends in: the PV points to c1 with the UID of c1, is
\* Bound and carries no annBoundByController; the PVC points to the PV, is
\* Bound and carries annWasEverBound and annBoundByController.
PreBindTerminal ==
    /\ pv["v1"].exists
    /\ pv["v1"].cp = "c1"
    /\ ClaimPtrUID(pv["v1"]) = UID("c1", pvc["c1"])
    /\ pv["v1"].phase = Bound
    /\ ~hasAnnotation(pv["v1"], "annBoundByController")
    /\ pvc["c1"].exists
    /\ pvc["c1"].vp = "v1"
    /\ pvc["c1"].phase = Bound
    /\ hasAnnotation(pvc["c1"], "annWasEverBound")
    /\ hasAnnotation(pvc["c1"], "annBoundByController")

\* C2: from a PV reserved for c1 (claim pointer without UID, no
\* annBoundByController) and c1 with nil volume pointer, repeated
\* reconciliation reaches the terminal state of the pre-bind and stays in it.
C2_PreBindFromVolume == <>[]PreBindTerminal

\* C3 as stated: in every quiescent state no two distinct PVCs have volume
\* pointers to the same PV.
C3_NoSharedVolumePtr ==
    Quiescent =>
        \A c \in PVCs, d \in PVCs :
            (c # d /\ pvc[c].exists /\ pvc[d].exists /\ pvc[c].vp # NULL)
            => pvc[c].vp # pvc[d].vp

\* C3 amended: in every quiescent state no two distinct PVCs in phase Bound
\* have volume pointers to the same PV; the loser of the race for a PV keeps
\* its pointer and is Lost, or Pending if it never completed binding.
C3_NoSharedVolumePtrBound ==
    Quiescent =>
        \A c \in PVCs, d \in PVCs :
            (c # d /\ pvc[c].exists /\ pvc[d].exists /\ pvc[c].vp # NULL
                   /\ pvc[c].phase = Bound /\ pvc[d].phase = Bound)
            => pvc[c].vp # pvc[d].vp

\* Quiescent after the race for v1: both PVCs point to v1, one of them Bound.
C3_Witness ==
    /\ Quiescent
    /\ pvc["c1"].vp = "v1"
    /\ pvc["c2"].vp = "v1"
    /\ \E c \in PVCs : pvc[c].phase = Bound /\ hasAnnotation(pvc[c], "annWasEverBound")
    /\ hasAnnotation(pvc["c2"], "annWasEverBound")

\* Worker w has come to the end of a pass of fn in which every store write
\* succeeded and nothing else wrote the objects it holds.
PassSucceeded(w, fn) ==
    /\ proc[w].fn = fn
    /\ proc[w].at = "done"
    /\ proc[w].ok
    /\ ~proc[w].pvStale
    /\ ~proc[w].pvcStale

\* PVC c is Bound to a PV that exists and points back with the UID of c.
BoundBothWays(c) ==
    /\ pvc[c].vp # NULL
    /\ pv[pvc[c].vp].exists
    /\ ClaimPtrUID(pv[pvc[c].vp]) = UID(c, pvc[c])

\* C4: after a successful pass of SyncPVC on a PVC, if the PVC is Bound then
\* the PV its volume pointer names exists and the claim pointer of that PV
\* carries the UID of the PVC.
C4_BoundClaimHasVolume ==
    \A w \in Workers :
        (PassSucceeded(w, "SyncPVC") /\ pvc[proc[w].c].phase = Bound)
        => BoundBothWays(proc[w].c)

\* Worker w has come to the end of a pass of fn, with or without a failed
\* store write, and nothing else wrote the objects it holds.
PassEnded(w, fn) ==
    /\ proc[w].fn = fn
    /\ proc[w].at = "done"
    /\ ~proc[w].pvStale
    /\ ~proc[w].pvcStale

\* The PV a pass worked on is not Bound with a nil claim pointer.
BoundHasClaimPtr(v) ==
    (v # NULL /\ pv[v].exists /\ pv[v].phase = Bound) => pv[v].cp # NULL

ClaimGone(v) == pv[v].cp # NULL /\ GetPVC(pv[v]) = {}

\* C6 as stated: after a successful pass of syncPV, a PV in phase Available
\* has a nil claim pointer, and a PV in phase Released has a claim pointer
\* whose PVC is absent or has a different UID.
C6_AvailableHasNoClaimPtr ==
    \A w \in Workers :
        (PassSucceeded(w, "syncPV") /\ pv[proc[w].v].exists)
        => LET v == proc[w].v
           IN /\ pv[v].phase = Available => pv[v].cp = NULL
              /\ pv[v].phase = Released => ClaimGone(v)

\* The claim pointer of an Available PV is one syncPV leaves alone: it has no
\* UID (a reservation), or its PVC has a nil volume pointer (the binding is
\* not completed), or it was not set by the controller and its PVC is bound
\* elsewhere.
LeftAlone(v) ==
    \/ pv[v].cpuid = 0
    \/ \E c \in GetPVC(pv[v]) :
          \/ pvc[c].vp = NULL
          \/ pvc[c].vp # v /\ ~hasAnnotation(pv[v], "annBoundByController")

\* C6 amended: after a successful pass of syncPV, a PV in phase Available
\* has a nil claim pointer or one that syncPV leaves alone, and a PV in phase
\* Released has a claim pointer whose PVC is absent or has a different UID.
C6_AvailableClaimPtrLeftAlone ==
    \A w \in Workers :
        (PassSucceeded(w, "syncPV") /\ pv[proc[w].v].exists)
        => LET v == proc[w].v
           IN /\ pv[v].phase = Available => (pv[v].cp = NULL \/ LeftAlone(v))
              /\ pv[v].phase = Released => ClaimGone(v)

\* syncPV has marked Available a PV created with a pointer to a PVC that is
\* bound elsewhere.
C6_Witness ==
    \E w \in Workers :
        /\ PassSucceeded(w, "syncPV")
        /\ proc[w].br = "Z"
        /\ pv[proc[w].v].phase = Available
        /\ pv[proc[w].v].cp # NULL

\* C7: annWasEverBound is monotonic: no step takes the annotation from a
\* PVC that carries it, as long as the PVC exists.
C7_WasEverBoundMonotonic ==
    [][\A c \in PVCs :
         (/\ pvc[c].exists
          /\ hasAnnotation(pvc[c], "annWasEverBound")
          /\ pvc'[c].exists
          /\ pvc'[c].uid = pvc[c].uid)
         => hasAnnotation(pvc'[c], "annWasEverBound")]_vars

\* A PVC that carries annWasEverBound has been written again: it was marked
\* Lost.
C7_Witness ==
    \E c \in PVCs :
        /\ pvc[c].exists
        /\ hasAnnotation(pvc[c], "annWasEverBound")
        /\ pvc[c].phase = Lost

\* The state match-and-bind ends in for PVC c: some PV points to c with the
\* UID of c, is Bound and carries annBoundByController; c points to that PV,
\* is Bound and carries annWasEverBound and annBoundByController.
BindTerminal(c) ==
    \E v \in PVs :
        /\ pv[v].exists
        /\ pv[v].cp = c
        /\ ClaimPtrUID(pv[v]) = UID(c, pvc[c])
        /\ pv[v].phase = Bound
        /\ hasAnnotation(pv[v], "annBoundByController")
        /\ pvc[c].exists
        /\ pvc[c].vp = v
        /\ pvc[c].phase = Bound
        /\ hasAnnotation(pvc[c], "annWasEverBound")
        /\ hasAnnotation(pvc[c], "annBoundByController")

\* The process is killed in the middle of a pass.
Killed == Crash /\ \E w \in Workers : proc[w].at \notin {"idle", "done"}

\* C8: crash-safety of match-and-bind: the controller may be killed after
\* any store call and restarted; unless it is killed in the middle of a pass
\* again and again for ever, c1 and its PV reach the final state of the
\* uninterrupted run and stay in it.
C8_CrashSafeBind == []<><<Killed /\ UNCHANGED resync>>_vars \/ <>[]BindTerminal("c1")

\* A pass of SyncPVC that found the PV of an interrupted pass (its claim
\* pointer already written) has completed the binding.
C8_Witness ==
    \E w \in Workers :
        /\ PassSucceeded(w, "SyncPVC")
        /\ proc[w].br = "Ap"
        /\ BindTerminal("c1")

\* C9: resync equivalence: from any state of the PVs and PVCs, with no
\* external change, no failed store write and no kill, the store after the
\* second full resync (syncAllPVCs, then syncAllPVs) is the store after the
\* first.
C9_ResyncTwiceIsOnce ==
    Len(resync.snaps) >= 2 => resync.snaps[2] = resync.snaps[1]

\* PVC c and PV v are bound to each other, the claim pointer carries the UID
\* of c, and both are in phase Bound.
ConsistentlyBound(c, v) ==
    /\ pvc[c].exists
    /\ pv[v].exists
    /\ pvc[c].vp = v
    /\ pv[v].cp = c
    /\ ClaimPtrUID(pv[v]) = UID(c, pvc[c])
    /\ pvc[c].phase = Bound
    /\ pv[v].phase = Bound

\* Worker w is about to choose its branch, holds the object as it is stored,
\* and the object is one of a consistently bound pair.
ReconcilesBoundPair(w) ==
    /\ proc[w].at = "read"
    /\ \/ /\ proc[w].fn = "SyncPVC"
          /\ proc[w].lpvc = pvc[proc[w].c]
          /\ \E v \in PVs : ConsistentlyBound(proc[w].c, v)
       \/ /\ proc[w].fn = "syncPV"
          /\ proc[w].lpv = pv[proc[w].v]
          /\ \E c \in PVCs : ConsistentlyBound(c, proc[w].v)

\* C10: idempotence: a pass of SyncPVC or syncPV on an object of a
\* consistently bound pair, both in phase Bound, makes no store call: from
\* its read it goes straight to its return, and the store is unchanged.
C10_BoundPairNoCommit ==
    [][\A w \in Workers :
         (ReconcilesBoundPair(w) /\ proc'[w].at \notin {"read", "idle"})
         => /\ proc'[w].at = "done"
            /\ proc'[w].br \in {"F0", "P0"}
            /\ pv' = pv
            /\ pvc' = pvc]_vars

\* Both reconcilers have returned from a bound pair without a store call.
C10_Witness ==
    /\ proc["w1"].fn = "SyncPVC"
    /\ proc["w1"].br = "F0"
    /\ proc["w1"].at = "done"
    /\ proc["w2"].fn = "syncPV"
    /\ proc["w2"].br = "P0"
    /\ proc["w2"].at = "done"
    /\ ConsistentlyBound(proc["w1"].c, proc["w1"].v)
    /\ proc["w2"].v = proc["w1"].v

\* PVC c was bound to PV v and has been deleted, its DELETE event has been
\* handled: v is Released and the deleter job for v is running.
ReleasedForDeleted(c, v) ==
    /\ ~pvc[c].exists
    /\ pvc[c].vp = v
    /\ pv[v].exists
    /\ ClaimPtrUID(pv[v]) = UID(c, pvc[c])
    /\ pv[v].phase = Released
    /\ Job("delete", v, pv[v].uid) \in running

\* Worker w takes a step of the handler of a DELETE event for PVC c.
DeleteHandlerStep(w, c) ==
    /\ proc[w].fn = "SyncPVC"
    /\ proc[w].del
    /\ proc[w].c = c
    /\ proc'[w].at # proc[w].at

\* C11: a second DELETE event for a bound PVC that was deleted is a no-op:
\* while its PV is Released and the deleter job is running, no step of the
\* handler changes the claim pointer, the annotations or the phase of the
\* PV, and none starts another job; when the PV is deleted already, no step
\* of the handler changes a PV or starts a job.
C11_SecondDeleteIsNoOp ==
    [][\A w \in Workers, c \in PVCs :
         (/\ DeleteHandlerStep(w, c)
          /\ \/ \E v \in PVs : ReleasedForDeleted(c, v)
             \/ pvc[c].vp # NULL /\ ~pv[pvc[c].vp].exists)
         => /\ pv' = pv
            /\ running' \subseteq running]_vars

\* The deleter jobs that the step launches.
LaunchedDeleters == {j \in running' \ running : j.kind = "delete"}

\* C12: PVC c1 of a bound pair is deleted, the policy of PV v1 is Delete and
\* a deleter is configured: a deleter job is launched only for the PV that
\* exists and is Released, so that, the job deleting the PV, exactly one job
\* runs for the UID of the PV; and in the end the PV object is deleted.
C12_DeleteClaimReclaims ==
    /\ [][\A j \in LaunchedDeleters :
            /\ pv[j.name].exists
            /\ pv[j.name].uid = j.uid
            /\ pv[j.name].phase = Released]_vars
    /\ [](~pvc["c1"].exists => <>[]~pv["v1"].exists)

\* PVC c1 is deleted and PV v1 still points to it, with the annotation the
\* controller set when it bound the pair.
RecycleStart ==
    /\ ~pvc["c1"].exists
    /\ pv["v1"].cp = "c1"
    /\ pv["v1"].cpuid = 1
    /\ hasAnnotation(pv["v1"], "annBoundByController")

\* PV v1 is back in the pool.
Recycled ==
    /\ pv["v1"].phase = Available
    /\ pv["v1"].cp = NULL
    /\ ~hasAnnotation(pv["v1"], "annBoundByController")

\* The recycle jobs that the step launches.
LaunchedRecyclers == {j \in running' \ running : j.kind = "recycle"}

\* The running jobs of the kind and key of job j.
SameKey(j) ==
    {k \in running : k.kind = j.kind /\ k.name = j.name /\ k.uid = j.uid}

\* C13: recycle round-trip: once the PVC of a pair that the controller bound
\* is deleted, the PV (policy Recycle) becomes Released and then, the
\* scrubber pod succeeding, Available with nil claim pointer and without
\* annBoundByController; and however often the PV is reconciled while the
\* job is running, no second recycle job is launched for it.
C13_RecycleRoundTrip ==
    /\ [](RecycleStart => <>(pv["v1"].phase = Released /\ <>Recycled))
    /\ [][\A j \in LaunchedRecyclers : SameKey(j) = {}]_vars
    /\ [](\A j \in running : SameKey(j) = {j})

\* The PVC is deleted, the job has ended and the PV is back in the pool, while
\* a pass of syncPV that committed Released during the job is still under way.
C13_Witness ==
    /\ ~pvc["c1"].exists
    /\ Recycled
    /\ running = {}
    /\ \E w \in Workers :
          proc[w].fn = "syncPV" /\ proc[w].br = "R" /\ proc[w].at = "dispatch"

\* The CommitPV of worker w succeeds in this step.
CommitPVSucceeds(w) == proc[w].at = "pv" /\ proc'[w].at = "pvs"

\* Worker q is about to commit a copy of the PV that worker w commits.
Rival(w, q) ==
    /\ q # w
    /\ proc[q].at = "pv"
    /\ proc[q].v = proc[w].v

\* C14: two controllers race to bind c1 to a PV they both read with a nil
\* claim pointer: the CommitPV that succeeds makes the copy of the rival
\* stale, a stale copy is never committed (the rival meets Conflict), and
\* once both have reconciled again c1 and one PV are bound to each other,
\* both in phase Bound, for good.
C14_OneBinderWins ==
    /\ [][\A w \in Workers :
            CommitPVSucceeds(w)
            => /\ ~proc[w].pvStale
               /\ \A q \in Workers :
                     (Rival(w, q) /\ pv' # pv) => proc'[q].pvStale]_vars
    /\ <>[]BindTerminal("c1")

\* Both controllers took the match-and-bind branch for the same PV; one has
\* met Conflict on its CommitPV, and the binding stands.
C14_Witness ==
    /\ BindTerminal("c1")
    /\ proc["w1"].br = "A"
    /\ proc["w2"].br = "A"
    /\ proc["w1"].v = proc["w2"].v
    /\ \E w \in Workers :
          proc[w].at = "done" /\ ~proc[w].ok /\ proc[w].pvStale

\* A store write of some pass fails in this step.
WriteFails ==
    /\ \E w \in Workers : proc[w].ok /\ ~proc'[w].ok
    /\ UNCHANGED resync

\* C15: match and bind: from a free PV and a new PVC without volume pointer,
\* unless store writes go on failing for ever, reconciliation reaches the
\* state in which a PV points to c1 with the UID of c1, is Bound and carries
\* annBoundByController, and c1 points to that PV, is Bound and carries
\* annWasEverBound and annBoundByController; and it stays there.
C15_MatchAndBind == []<><<WriteFails>>_vars \/ <>[]BindTerminal("c1")

\* A single pass of SyncPVC has matched and bound c1, no store write failing.
C15_Witness ==
    \E w \in Workers :
        /\ PassSucceeded(w, "SyncPVC")
        /\ proc[w].br = "A"
        /\ BindTerminal("c1")

\* The state scenario 3 ends in: v1 points to c1 with the UID of c1, carries
\* annBoundByController and is Bound; c1 points to v1, is Bound and carries
\* annWasEverBound but not annBoundByController.
PreBindPVCTerminal ==
    /\ pv["v1"].exists
    /\ pv["v1"].cp = "c1"
    /\ ClaimPtrUID(pv["v1"]) = UID("c1", pvc["c1"])
    /\ hasAnnotation(pv["v1"], "annBoundByController")
    /\ pv["v1"].phase = Bound
    /\ pvc["c1"].exists
    /\ pvc["c1"].vp = "v1"
    /\ pvc["c1"].phase = Bound
    /\ hasAnnotation(pvc["c1"], "annWasEverBound")
    /\ ~hasAnnotation(pvc["c1"], "annBoundByController")

\* C16: user pre-bind from the PVC side: c1 was created with a volume
\* pointer to v1, which exists with a nil claim pointer.  c1 never carries
\* annBoundByController, and unless store writes go on failing for ever the
\* pair reaches the terminal state of the scenario and stays in it.
C16_PreBindFromClaim ==
    /\ [](~hasAnnotation(pvc["c1"], "annBoundByController"))
    /\ ([]<><<WriteFails>>_vars \/ <>[]PreBindPVCTerminal)

\* A pass of SyncPVC has bound the PV the user asked for.
C16_Witness ==
    \E w \in Workers :
        /\ PassSucceeded(w, "SyncPVC")
        /\ proc[w].br = "B"
        /\ PreBindPVCTerminal

DispatchJob(w) ==
    IF proc[w].fn = "SyncPVC"
    THEN Job("provision", proc[w].c, proc[w].cuid)
    ELSE Job(IF proc[w].pol = "Delete" THEN "delete" ELSE "recycle",
             proc[w].v, proc[w].vuid)

\* Worker w makes its StartUnique call in this step.
CallsStartUnique(w) ==
    /\ proc[w].at = "dispatch"
    /\ proc'[w].at = "done"

Provisioners(c) == {j \in running : j.kind = "provision" /\ j.name = c}

\* The provisioner job j ends in this step without having made a PV.
ProvisionFails(j) ==
    /\ j \in running
    /\ j.kind = "provision"
    /\ j \notin running'
    /\ pv' = pv

\* PVC c is new, wants any PV, requests a storage class, and the matcher has
\* no PV for it.
NeedsProvision(c) ==
    /\ pvc[c].exists
    /\ ~hasAnnotation(pvc[c], "annWasEverBound")
    /\ hasAnnotation(pvc[c], "annClass")
    /\ pvc[c].vp = NULL
    /\ FindAcceptablePV(c, pvc[c]) = {}

Other(c) == IF c = "c1" THEN "c2" ELSE "c1"

\* The link of v1 is repaired for PVC c: the claim pointer of v1 carries the
\* UID of c.
RepairedFor(c) ==
    /\ pv["v1"].exists
    /\ pv["v1"].cp = c
    /\ ClaimPtrUID(pv["v1"]) = UID(c, pvc[c])

\* PVC c has won the repair for good: it is Bound to a Bound v1, and the
\* other PVC is Lost.
RepairSettled(c) ==
    /\ RepairedFor(c)
    /\ pv["v1"].phase = Bound
    /\ pvc[c].phase = Bound
    /\ IsLost(Other(c))

\* Worker w reads the PV of its PVC in this step.
ReadsPV(w) ==
    /\ proc[w].fn = "SyncPVC"
    /\ proc[w].at = "read"
    /\ proc'[w].at # "read"

\* C20: c1 and c2 were bound before, both point to v1, whose claim pointer
\* is nil, and both attempt the repair.  The claim pointer of v1 is nil or
\* carries the UID of one of the two, and once it carries a UID it keeps it;
\* a pass of the other PVC that reads v1 after that takes the branch that
\* marks it Lost; and in the end the winner is Bound to v1 and the other PVC
\* is Lost, for good.
C20_BrokenLinkRace ==
    /\ [](pv["v1"].cp = NULL \/ RepairedFor("c1") \/ RepairedFor("c2"))
    /\ [][\A c \in PVCs : RepairedFor(c) => RepairedFor(c)']_vars
    /\ [][\A w \in Workers, c \in PVCs :
            (ReadsPV(w) /\ proc[w].c = Other(c) /\ RepairedFor(c))
            => (proc'[w].br = "G" /\ proc'[w].at = "pvcs")]_vars
    /\ [][\A w \in Workers :
            (proc[w].br = "G" /\ proc[w].at = "pvcs" /\ proc'[w].at = "done")
            => IsLost(proc[w].c)']_vars
    /\ <>[](RepairSettled("c1") \/ RepairSettled("c2"))

\* Both passes took the repair branch on a nil claim pointer, one has
\* committed its UID and the other is about to commit its stale copy.
C20_Witness ==
    \E w, q \in Workers :
        /\ proc[w].br = "E" /\ proc[q].br = "E"
        /\ proc[w].c # proc[q].c
        /\ RepairedFor(proc[w].c)
        /\ proc[q].at = "pv"
        /\ proc[q].pvStale

\* The branches of SyncPVC that bind a new PVC.
Binds == {"A", "Ap", "B", "C"}

\* Worker w is in a pass of SyncPVC that binds a new PVC.
Binding(w) == proc[w].fn = "SyncPVC" /\ proc[w].br \in Binds

\* PVC c gets annWasEverBound in this step.
MarksWasEverBound(c) ==
    /\ pvc[c].exists /\ pvc'[c].exists
    /\ ~hasAnnotation(pvc[c], "annWasEverBound")
    /\ hasAnnotation(pvc'[c], "annWasEverBound")

\* C21: a pass that binds a new PVC makes its calls in the order CommitPV,
\* CommitPVStatus, CommitPVC, CommitPVCStatus, each one only after the one
\* before it has succeeded: it comes to CommitPVStatus from a CommitPV that
\* left the claim pointer of the PV on the PVC, and to CommitPVC from a
\* CommitPVStatus that left the PV Bound; a pass in which a write has failed
\* makes no further call; and annWasEverBound is set on a PVC by the
\* CommitPVC of such a pass alone, none of whose writes has failed.
C21_VolumeSideFirst ==
    [][/\ \A w \in Workers :
            (Binding(w)' /\ proc'[w].at = "pvs" /\ proc[w].at # "pvs")
            => /\ proc[w].at = "pv" /\ proc[w].ok
               /\ pv'[proc[w].v].exists
               /\ pv'[proc[w].v].cp = proc[w].c
       /\ \A w \in Workers :
            (Binding(w)' /\ proc'[w].at = "pvc" /\ proc[w].at # "pvc")
            => /\ proc[w].at = "pvs" /\ proc[w].ok
               /\ pv'[proc[w].v].exists
               /\ pv'[proc[w].v].cp = proc[w].c
               /\ pv'[proc[w].v].phase = Bound
       /\ \A w \in Workers : ~proc'[w].ok => proc'[w].at = "done"
       /\ \A c \in PVCs :
            MarksWasEverBound(c)
            => \E w \in Workers :
                  /\ Binding(w) /\ proc[w].c = c
                  /\ proc[w].at = "pvc" /\ proc[w].ok
                  /\ proc'[w].at = "pvcs"]_vars

\* A pass has bound a new PVC: both PV commits and CommitPVC have succeeded,
\* and the PVC carries annWasEverBound.
C21_Witness ==
    \E w \in Workers :
        /\ Binding(w) /\ proc[w].at = "pvcs" /\ proc[w].ok
        /\ hasAnnotation(pvc[proc[w].c], "annWasEverBound")
        /\ pv[proc[w].v].phase = Bound

\* The reclaim jobs that the step launches.
LaunchedReclaimers ==
    {j \in running' \ running : j.kind \in {"delete", "recycle"}}

\* Worker w is in the release block of syncPV.
Releasing(w) == proc[w].fn = "syncPV" /\ proc[w].br \in {"R", "M"}

\* C22: syncPV comes to the dispatch on the reclaim policy only from a
\* CommitPVStatus that has left the PV Released, in the same pass; a reclaim
\* job is launched, and a PV is marked Failed, from that dispatch alone; and
\* when the commit of Released fails the pass ends and launches nothing.
C22_ReleasedBeforeDispatch ==
    [][/\ \A w \in Workers :
            (proc'[w].fn = "syncPV" /\ proc'[w].at = "dispatch"
                                     /\ proc[w].at # "dispatch")
            => /\ proc[w].fn = "syncPV" /\ proc[w].br = "R"
               /\ proc[w].at = "pvs" /\ proc[w].ok
               /\ pv'[proc[w].v].exists
               /\ pv'[proc[w].v].uid = proc[w].vuid
               /\ pv'[proc[w].v].phase = Released
       /\ \A j \in LaunchedReclaimers :
            \E w \in Workers :
               /\ proc[w].fn = "syncPV" /\ proc[w].at = "dispatch"
               /\ proc[w].v = j.name /\ proc[w].vuid = j.uid
       /\ \A w \in Workers :
            (proc'[w].br = "M" /\ proc[w].br # "M")
            => proc[w].fn = "syncPV" /\ proc[w].at = "dispatch"
       /\ \A v \in PVs :
            (pv'[v].phase = Failed /\ pv[v].phase # Failed)
            => \E w \in Workers :
                  proc[w].br = "M" /\ proc[w].at = "pvs" /\ proc[w].v = v
       /\ \A w \in Workers :
            (Releasing(w) /\ proc[w].br = "R" /\ proc[w].at = "pvs"
                          /\ ~proc'[w].ok)
            => /\ proc'[w].at = "done"
               /\ running' = running
               /\ pv' = pv]_vars

\* A pass has committed Released and launched the job for its PV.
C22_Witness ==
    \E w \in Workers :
        /\ proc[w].fn = "syncPV" /\ proc[w].br = "R"
        /\ proc[w].at = "done" /\ proc[w].ok
        /\ pv[proc[w].v].phase = Released
        /\ \E j \in running : j.name = proc[w].v /\ j.uid = proc[w].vuid

\* Worker w chooses the branch of syncPV for its PV in this step.
SyncPVChooses(w) ==
    /\ proc[w].fn = "syncPV"
    /\ proc[w].at = "read"
    /\ proc'[w].fn = "syncPV"
    /\ proc'[w].at # "read"

\* C23: syncPV of a PV whose claim pointer is nil calls CommitPVStatus only
\* when the phase of the PV differs from Available: a pass that finds the
\* phase Available already returns without a store call.
C23_UnusedCommitsIfDiffers ==
    [][\A w \in Workers :
         (/\ SyncPVChooses(w)
          /\ proc[w].lpv.cp = NULL
          /\ proc[w].lpv.phase = Available)
         => proc'[w].at = "done"]_vars

\* The PVC that the claim pointer of the local PV of worker w names exists
\* with the UID of the pointer, and its volume pointer names another PV.
ClaimBoundElsewhere(w) ==
    LET o == proc[w].lpv
    IN /\ o.cp # NULL
       /\ o.cpuid # 0
       /\ pvc[o.cp].exists
       /\ UID(o.cp, pvc[o.cp]) = ClaimPtrUID(o)
       /\ pvc[o.cp].vp \notin {NULL, proc[w].v}

\* A store call of worker w succeeds in this step.
Commits(w, at) ==
    /\ proc[w].at = at
    /\ proc'[w].fn = proc[w].fn
    /\ proc'[w].at # at
    /\ proc'[w].ok

\* PV v1 after the claim-elsewhere branch: Available, its claim pointer nil
\* if the controller had set it, and as it was created if not.
ElsewhereSettled ==
    /\ pv["v1"].phase = Available
    /\ IF hasAnnotation(pv["v1"], "annBoundByController")
       THEN pv["v1"].cp = NULL /\ pv["v1"].cpuid = 0
       ELSE pv["v1"].cp = "c1" /\ pv["v1"].cpuid = 1

\* C24: syncPV of a PV whose claim pointer carries the UID of a PVC that
\* exists and is bound to another PV: with annBoundByController on the PV the
\* pass commits a nil claim pointer and then phase Available; without it the
\* pass commits phase Available and never writes the claim pointer.  Unless
\* store writes keep failing PV v1 ends that way for good.
C24_ClaimElsewhere ==
    /\ [][\A w \in Workers :
            /\ (SyncPVChooses(w) /\ ClaimBoundElsewhere(w))
               => /\ proc'[w].br =
                        IF hasAnnotation(proc[w].lpv, "annBoundByController")
                        THEN "U" ELSE "Z"
                  /\ proc'[w].at = IF proc'[w].br = "U" THEN "pv" ELSE "pvs"
            /\ (proc[w].br = "U" /\ Commits(w, "pv"))
               => /\ pv'[proc[w].v].cp = NULL
                  /\ pv'[proc[w].v].cpuid = 0
                  /\ pv'[proc[w].v].phase = pv[proc[w].v].phase
                  /\ proc'[w].at = "pvs"
            /\ (proc[w].br \in {"U", "Z"} /\ Commits(w, "pvs"))
               => /\ pv'[proc[w].v].phase = Available
                  /\ pv'[proc[w].v].cp = pv[proc[w].v].cp
                  /\ pv'[proc[w].v].cpuid = pv[proc[w].v].cpuid
                  /\ proc'[w].at = "done"
            /\ proc[w].br = "Z" => proc'[w].at # "pv"]_vars
    /\ ([]<><<WriteFails>>_vars \/ <>[]ElsewhereSettled)

\* Both cases have been handled: a pass has undone the link the controller
\* wrote, or has left the pointer of the creator in place, and PV v1 is
\* Available.
C24_Witness ==
    /\ ElsewhereSettled
    /\ \E w \in Workers :
          /\ proc[w].fn = "syncPV" /\ proc[w].v = "v1"
          /\ proc[w].br \in {"U", "Z"}
          /\ proc[w].at = "done" /\ proc[w].ok

\* PV o is a reservation (claim pointer without UID), or its claim pointer
\* carries the UID of a PVC that exists and has a nil volume pointer.
InProgress(o) ==
    /\ o.exists
    /\ o.cp # NULL
    /\ \/ o.cpuid = 0
       \/ /\ pvc[o.cp].exists
          /\ UID(o.cp, pvc[o.cp]) = ClaimPtrUID(o)
          /\ pvc[o.cp].vp = NULL

\* Worker w makes a step of its pass.
Moves(w) == proc'[w].at # proc[w].at

\* C25: syncPV leaves a binding in progress alone.  A pass of syncPV handed
\* a PV that is a reservation, or whose claim pointer carries the UID of an
\* existing PVC with nil volume pointer, returns without a store call; no
\* step of such a pass changes an object; and while a stored PV is in one of
\* these states it is written by the Commit calls of SyncPVC alone, whatever
\* the interleaving of the passes.
C25_BindingInProgressDeferred ==
    [][/\ \A w \in Workers :
            (SyncPVChooses(w) /\ InProgress(proc[w].lpv))
            => (proc'[w].br \in {"K", "Y"} /\ proc'[w].at = "done")
       /\ \A w \in Workers :
            (proc[w].fn = "syncPV" /\ proc[w].br \in {"K", "Y"} /\ Moves(w))
            => (pv' = pv /\ pvc' = pvc /\ running' = running)
       /\ \A v \in PVs :
            (InProgress(pv[v]) /\ pv'[v] # pv[v])
            => \E w \in Workers :
                  /\ proc[w].fn = "SyncPVC" /\ proc[w].v = v
                  /\ proc[w].at \in {"pv", "pvs"}
                  /\ Moves(w)]_vars

\* syncPV has deferred while a pass of SyncPVC is between its commit of the
\* PV and its commit of the PVC.
C25_Witness ==
    \E w, q \in Workers :
        /\ proc[w].fn = "syncPV" /\ proc[w].br = "Y" /\ proc[w].at = "done"
        /\ Binding(q) /\ proc[q].v = proc[w].v
        /\ proc[q].at \in {"pvs", "pvc"} /\ ~proc[q].pvStale
        /\ InProgress(pv[proc[w].v])

\* Worker w chooses the branch of SyncPVC for its PVC in this step.
SyncPVCChooses(w) ==
    /\ proc[w].fn = "SyncPVC"
    /\ proc[w].at = "read"
    /\ proc'[w].fn = "SyncPVC"
    /\ proc'[w].at # "read"

\* The local PVC lc (named c) has to wait: no PV is requested, none matches
\* and no storage class is asked for; or the PV requested does not exist; or
\* the PV requested carries the claim pointer of another PVC.
MustWait(lc, c) ==
    /\ ~hasAnnotation(lc, "annWasEverBound")
    /\ IF lc.vp = NULL
       THEN FindAcceptablePV(c, lc) = {} /\ ~hasAnnotation(lc, "annClass")
       ELSE \/ ~pv[lc.vp].exists
            \/ pv[lc.vp].cp \notin {NULL, c}

\* C26: a pass of SyncPVC on a PVC that was never bound and has to wait
\* takes one of the three waiting branches and returns without a store call:
\* no step of such a pass changes a PV, a PVC or the registry; and PVC c1,
\* which waits from the start, stays as it was created, in phase Pending.
C26_WaitingWritesNothing ==
    /\ [][/\ \A w \in Workers :
               (SyncPVCChooses(w) /\ MustWait(proc[w].lpvc, proc[w].c))
               => (proc'[w].br \in {"N", "W", "X"} /\ proc'[w].at = "done")
          /\ \A w \in Workers :
               (/\ proc[w].fn = "SyncPVC"
                /\ proc[w].br \in {"N", "W", "X"}
                /\ Moves(w))
               => (pv' = pv /\ pvc' = pvc /\ running' = running)
          /\ pvc'["c1"] = pvc["c1"]]_vars
    /\ [](pvc["c1"].phase = Pending)

\* A pass for c1 has found that it must wait for a PV that another PVC
\* holds, c1 carrying annBoundByController, and has returned.
C26_Witness ==
    \E w \in Workers :
        /\ proc[w].fn = "SyncPVC" /\ proc[w].c = "c1"
        /\ proc[w].br = "X" /\ proc[w].at = "done"
        /\ hasAnnotation(pvc["c1"], "annBoundByController")
        /\ pv["v1"].phase = Bound

\* Worker w finds no plugin at the dispatch on the reclaim policy.
NoPlugin(w) ==
    /\ proc[w].fn = "syncPV"
    /\ proc[w].at = "dispatch"
    /\ proc'[w].fn = "syncPV"
    /\ proc'[w].at # "dispatch"

\* C27: the PVC of a bound pair is deleted, the policy of the PV is Delete or
\* Recycle and no plugin is found for it.  The pass that finds none makes the
\* event and goes on to mark the PV Failed, launching nothing; its
\* CommitPVStatus leaves the PV Failed; no job is ever registered and the PV
\* object is never deleted; and unless store writes keep failing, the PV is
\* Failed again and again once its PVC is gone.
C27_NoPluginFails ==
    /\ [][\A w \in Workers :
            /\ NoPlugin(w)
               => /\ proc'[w].br = "M" /\ proc'[w].at = "pvs"
                  /\ running' = running /\ pv' = pv
            /\ (proc[w].br = "M" /\ Commits(w, "pvs"))
               => /\ pv'[proc[w].v].phase = Failed
                  /\ pv'[proc[w].v].cp = pv[proc[w].v].cp
                  /\ proc'[w].at = "done"]_vars
    /\ [](running = {} /\ pv["v1"].exists /\ pv["v1"].uid = 1)
    /\ \/ []<><<WriteFails>>_vars
       \/ [](~pvc["c1"].exists => <>(pv["v1"].phase = Failed))

\* A pass has found no plugin and marked the PV Failed.
C27_Witness ==
    \E w \in Workers :
        /\ proc[w].fn = "syncPV" /\ proc[w].br = "M"
        /\ proc[w].at = "done" /\ proc[w].ok
        /\ pv[proc[w].v].phase = Failed
        /\ ~pvc["c1"].exists
        /\ running = {}

\* PV v1 is there with reclaim policy Retain.
RetainPV == pv["v1"].exists /\ pv["v1"].policy = "Retain"

\* PV v1 is retained: its policy is Retain and its PVC c1 is gone.
Retained == RetainPV /\ ~pvc["c1"].exists

\* A pass of SyncPVC starts on the last state of the deleted PVC c1: its
\* DELETE event is delivered.
DeleteDelivered ==
    /\ \E w \in Workers :
          /\ proc[w].at = "idle"
          /\ proc'[w].fn = "SyncPVC" /\ proc'[w].c = "c1" /\ proc'[w].del
    /\ UNCHANGED resync

\* C28: a PV with reclaim policy Retain whose PVC was deleted is never
\* deleted, never Available, keeps its claim pointer, and no job is ever
\* launched for it; the release pass of syncPV on it commits Released and
\* returns; once it is Released no pass of syncPV changes it; and, unless
\* store writes keep failing or the DELETE event of the PVC is delivered
\* again and again, it is Released for good.
C28_RetainKeepsReleased ==
    /\ [](RetainPV
          => /\ pv["v1"].uid = 1
             /\ pv["v1"].cp = "c1" /\ pv["v1"].cpuid = 1
             /\ pv["v1"].phase \in {Bound, Released}
             /\ running = {})
    /\ [][RetainPV => RetainPV']_vars
    /\ [][\A w \in Workers :
            /\ (Retained /\ proc[w].br = "R" /\ Commits(w, "pvs"))
               => (pv'["v1"].phase = Released /\ proc'[w].at = "done")
            /\ (Retained /\ pv["v1"].phase = Released
                         /\ proc[w].fn = "syncPV" /\ Moves(w))
               => pv' = pv]_vars
    /\ \/ []<><<WriteFails>>_vars
       \/ []<><<DeleteDelivered>>_vars
       \/ [](Retained => <>[](pv["v1"].phase = Released))

\* The retained PV has been released and reconciled once more.
C28_Witness ==
    /\ Retained
    /\ pv["v1"].phase = Released
    /\ \E w \in Workers :
          /\ proc[w].fn = "syncPV" /\ proc[w].br = "R"
          /\ proc[w].at = "done" /\ proc[w].ok /\ ~proc[w].pvStale
    /\ \E q \in Workers :
          proc[q].fn = "syncPV" /\ proc[q].at = "read"
                                /\ proc[q].lpv.phase = Released

\* The handler of a PVC DELETE event on worker w returns from syncPVC in this
\* step, the volume pointer of the deleted PVC naming a PV.
HandlerGoesOn(w) ==
    /\ proc[w].fn = "SyncPVC"
    /\ proc[w].del
    /\ proc[w].at = "done"
    /\ Moves(w)
    /\ proc[w].vp # NULL
    /\ pv[proc[w].vp].exists

\* The PVC that the local PV of worker w points to is gone: no PVC of the
\* name and UID of its claim pointer exists.
SeesClaimGone(w) ==
    /\ proc[w].lpv.cp # NULL
    /\ proc[w].lpv.cpuid # 0
    /\ GetPVC(proc[w].lpv) = {}

\* The handler of the DELETE event of PVC c1 is in its syncPVC on worker w.
HandlerRuns(w) == proc[w].fn = "SyncPVC" /\ proc[w].del /\ proc[w].c = "c1"

\* Worker w starts syncPV of PV v1.
HandlerSyncsPV(w) ==
    proc[w].fn = "syncPV" /\ proc[w].v = "v1" /\ proc[w].at = "read"

\* PV v1 has lost its PVC c1.
Orphaned == pv["v1"].exists /\ ~pvc["c1"].exists

\* C29: after the PVC of a bound pair is deleted its PV becomes Released.
\* The DELETE handler goes on from syncPVC to syncPV of the PV that the
\* deleted PVC points to; a pass of syncPV that finds the PVC gone commits
\* Released; unless store writes keep failing, the PV of a deleted PVC
\* becomes Released, the event delivered or missed; and the handler of a
\* delivered event always comes to its syncPV of that PV, resync or not.
C29_DeletedClaimReleases ==
    /\ [][\A w \in Workers :
            /\ HandlerGoesOn(w)
               => /\ proc'[w].fn = "syncPV"
                  /\ proc'[w].v = proc[w].vp
                  /\ proc'[w].at = "read"
            /\ (SyncPVChooses(w) /\ SeesClaimGone(w))
               => (proc'[w].br = "R" /\ proc'[w].at = "pvs")
            /\ (proc[w].br = "R" /\ Commits(w, "pvs"))
               => pv'[proc[w].v].phase = Released]_vars
    /\ \/ []<><<WriteFails>>_vars
       \/ [](Orphaned => <>(pv["v1"].phase = Released))
    /\ \A w \in Workers :
          [](HandlerRuns(w) => <>HandlerSyncsPV(w))

\* The DELETE handler has gone on to syncPV and released the PV.
C29_Witness ==
    /\ Orphaned
    /\ pv["v1"].phase = Released
    /\ \E w \in Workers :
          /\ proc[w].fn = "syncPV" /\ proc[w].v = "v1"
          /\ proc[w].br = "R" /\ proc[w].at = "done" /\ proc[w].ok
    /\ \A q \in Workers : proc[q].fn \in {"idle", "syncPV"}

\* Worker w starts a pass of syncPV on PV v in this step.
SyncPVStarts(w, v) ==
    /\ proc[w].at = "idle"
    /\ proc'[w].fn = "syncPV"
    /\ proc'[w].v = v

\* Worker w is in upgradePVFrom12, about to call DeletePV.
Sweeping(w) == proc[w].fn = "syncPV" /\ proc[w].at = "del"

\* C30: syncPV of a placeholder PV calls DeletePV and returns: the call
\* deletes the PV or, failing, changes nothing, and in either case the pass
\* makes no further store call, so that it commits neither a phase nor a
\* claim pointer.  syncPV of any other PV does not call DeletePV, and a PV is
\* deleted by the DeletePV of a pass on a placeholder alone.
C30_LegacySweepShortCircuits ==
    [][/\ \A w \in Workers, v \in PVs :
            SyncPVStarts(w, v)
            => proc'[w].at = IF isPlaceholderPV(pv[v]) THEN "del" ELSE "read"
       /\ \A w \in Workers :
            (Sweeping(w) /\ Moves(w))
            => /\ proc'[w].at = "done"
               /\ pvc' = pvc /\ running' = running
               /\ \A v \in PVs : v # proc[w].v => pv'[v] = pv[v]
               /\ IF proc'[w].ok
                  THEN ~pv'[proc[w].v].exists
                  ELSE pv' = pv
       /\ \A w \in Workers :
            (proc[w].fn = "syncPV" /\ proc[w].br = "idle"
                                   /\ proc[w].at = "done" /\ Moves(w))
            => (proc'[w] = IdleProc /\ pv' = pv /\ pvc' = pvc)
       /\ \A v \in PVs :
            (pv[v].exists /\ ~pv'[v].exists)
            => /\ isPlaceholderPV(pv[v])
               /\ \E w \in Workers : Sweeping(w) /\ proc[w].v = v]_vars

\* The sweep has deleted the placeholder in one pass and failed to delete
\* it in another, and the free PV is still there.
C30_Witness ==
    /\ ~pv["v1"].exists
    /\ pv["v2"].exists
    /\ \E w, q \in Workers :
          /\ proc[w].fn = "syncPV" /\ proc[w].v = "v1" /\ proc[w].br = "idle"
          /\ proc[w].at = "done" /\ proc[w].ok
          /\ proc[q].fn = "syncPV" /\ proc[q].v = "v1" /\ proc[q].br = "idle"
          /\ proc[q].at = "done" /\ ~proc[q].ok


\* ---------------------------------------------------------------- C31
\* Worker w, in a SyncPVC pass for a PVC whose UID is not the one the claim
\* pointer of PV v carries, has a commit of v succeed in this step.
ForeignCommit(w, v) ==
    /\ proc[w].fn = "SyncPVC"
    /\ proc[w].v = v
    /\ pv[v].exists
    /\ pv[v].cpuid # 0
    /\ ClaimPtrUID(pv[v]) # <<proc[w].c, proc[w].cuid>>
    /\ Commits(w, "pv") \/ Commits(w, "pvs")

\* C31: the claim reconciler never replaces a strong claim pointer: a
\* SyncPVC pass of a PVC whose UID differs from the UID in a PV's claim
\* pointer commits neither a change of that pointer nor phase Bound on that
\* PV.
C31_StrongPtrNeverReplaced ==
    [][\A w \in Workers, v \in PVs :
         ForeignCommit(w, v)
         => /\ pv'[v].cp = pv[v].cp
            /\ pv'[v].cpuid = pv[v].cpuid
            /\ pv'[v].phase = Bound => pv[v].phase = Bound]_vars


\* ---------------------------------------------------------------- C32
\* Worker w, in the syncPVC call of the DELETE handler for a PVC that had
\* neither annWasEverBound nor a volume pointer (the branches of lines
\* 39-99), takes a step of that call.
HandlesUnboundDelete(w) ==
    /\ proc[w].fn = "SyncPVC"
    /\ proc[w].del
    /\ proc[w].br \in {"N", "Nc", "A", "Ap"}
    /\ proc'[w].fn = "SyncPVC"
    /\ proc'[w].at # proc[w].at

\* C32: handling a PVC DELETE event never binds a PV to the deleted PVC: for
\* a deleted PVC without annWasEverBound and with nil volume pointer, the
\* handler's syncPVC call commits no claim pointer, annotation or phase
\* change on any PV.
C32_DeleteHandlerBindsNothing ==
    [][\A w \in Workers :
         HandlesUnboundDelete(w)
         => \A v \in PVs : /\ pv'[v].cp = pv[v].cp
                           /\ pv'[v].cpuid = pv[v].cpuid
                           /\ pv'[v].bbc = pv[v].bbc
                           /\ pv'[v].phase = pv[v].phase]_vars


\* ---------------------------------------------------------------- C33
\* The provisioner job j ends in this step having made a PV: plugin.Provision
\* succeeded and the PV API object was created.
ProvisionSucceeds(j) ==
    /\ j \in running
    /\ j.kind = "provision"
    /\ j \notin running'
    /\ pv' # pv

\* The PVs that were provisioned for the PVC named c with the number uid in
\* its UID: their claimRef names the PVC, with its UID or with none.
ProvisionedFor(c, uid) ==
    {v \in PVs : pv[v].exists /\ pv[v].cp = c /\ pv[v].cpuid \in {0, uid}}

\* C33: at most one PV is ever provisioned per PVC UID: a provisioner job
\* makes a PV for a PVC only if no job has made one for it before, whatever
\* the interleaving of the SyncPVC passes with the start and the end of the
\* job.
C33_OneProvisionPerClaim ==
    [][\A j \in running :
         ProvisionSucceeds(j) => ProvisionedFor(j.name, j.uid) = {}]_vars


\* ---------------------------------------------------------------- C34
\* C34: a PV whose committed claim pointer is nil does not carry
\* annBoundByController after a successful syncPV pass: after a syncPV pass
\* over a PV has ended with no store call failed, the PV has a claim pointer
\* or is without the annotation.
C34_NilClaimPtrUnmarked ==
    \A w \in Workers, v \in PVs :
        (/\ PassSucceeded(w, "syncPV")
         /\ proc[w].v = v
         /\ pv[v].exists
         /\ pv[v].cp = NULL)
        => ~hasAnnotation(pv[v], "annBoundByController")

====
